---- MODULE Spec2Model ----
(***************************************************************************)
(* Stock-Assistant: the prompt-to-query pipeline                           *)
(*   text -> PromptProcessor.process_prompt -> main -> AnalysisProcessor   *)
(*        -> StockProcessor.get_stock_data                                 *)
(* Python values are modelled as follows: a str is a TLA+ string, a dict   *)
(* is a record (key presence is DOMAIN membership), a list is a sequence,  *)
(* None is the marker None, a datetime is [d |-> day, s |-> second], a call *)
(* that can raise returns [raised |-> TRUE, exc |-> message] or            *)
(* [raised |-> FALSE, value |-> v].                                        *)
(***************************************************************************)
EXTENDS Integers, Sequences, FiniteSets, TLC

\* Python's None where a str is expected.  No regex group of the pattern
\* table can capture it: "<" and ">" are outside [A-Za-z\s] and \d.
None == "<None>"

-----------------------------------------------------------------------------
(* Strings: str.upper, str.lower, str.strip, int(), the `in` operator      *)

LowerLetters == <<"a","b","c","d","e","f","g","h","i","j","k","l","m",
                  "n","o","p","q","r","s","t","u","v","w","x","y","z">>
UpperLetters == <<"A","B","C","D","E","F","G","H","I","J","K","L","M",
                  "N","O","P","Q","R","S","T","U","V","W","X","Y","Z">>
DigitChars == <<"0","1","2","3","4","5","6","7","8","9">>

IndexIn(c, seq) ==
  IF \E k \in 1..Len(seq) : seq[k] = c
  THEN CHOOSE k \in 1..Len(seq) : seq[k] = c
  ELSE 0

CharAt(s, i) == SubSeq(s, i, i)

IsLetter(c) == IndexIn(c, LowerLetters) > 0 \/ IndexIn(c, UpperLetters) > 0
IsDigit(c) == IndexIn(c, DigitChars) > 0
IsSpace(c) == c = " "

LowerChar(c) ==
  IF IndexIn(c, UpperLetters) > 0 THEN LowerLetters[IndexIn(c, UpperLetters)] ELSE c
UpperChar(c) ==
  IF IndexIn(c, LowerLetters) > 0 THEN UpperLetters[IndexIn(c, LowerLetters)] ELSE c

RECURSIVE StrLower(_)
StrLower(s) ==
  IF Len(s) = 0 THEN "" ELSE LowerChar(CharAt(s, 1)) \o StrLower(SubSeq(s, 2, Len(s)))

RECURSIVE StrUpper(_)
StrUpper(s) ==
  IF Len(s) = 0 THEN "" ELSE UpperChar(CharAt(s, 1)) \o StrUpper(SubSeq(s, 2, Len(s)))

RECURSIVE LStrip(_)
LStrip(s) ==
  IF Len(s) > 0 /\ IsSpace(CharAt(s, 1)) THEN LStrip(SubSeq(s, 2, Len(s))) ELSE s

RECURSIVE RStrip(_)
RStrip(s) ==
  IF Len(s) > 0 /\ IsSpace(CharAt(s, Len(s))) THEN RStrip(SubSeq(s, 1, Len(s) - 1)) ELSE s

Strip(s) == RStrip(LStrip(s))

\* needle in haystack
StrContains(needle, haystack) ==
  \E i \in 1..(Len(haystack) - Len(needle) + 1) :
     SubSeq(haystack, i, i + Len(needle) - 1) = needle

\* int(s): raises ValueError unless s is digits (surrounding spaces allowed)
IsIntLiteral(s) ==
  LET t == Strip(s)
  IN  Len(t) > 0 /\ \A i \in 1..Len(t) : IsDigit(CharAt(t, i))

RECURSIVE DigitsValue(_)
DigitsValue(t) ==
  IF Len(t) = 0 THEN 0
  ELSE 10 * DigitsValue(SubSeq(t, 1, Len(t) - 1)) + (IndexIn(CharAt(t, Len(t)), DigitChars) - 1)

ParseInt(s) == DigitsValue(Strip(s))

-----------------------------------------------------------------------------
(* Regular expressions: re.search with Python's backtracking priority.     *)
(* A pattern is a tree; Match returns the ways it can match at position i, *)
(* most preferred first, each with its end position and captured groups.   *)

Lit(w) == [t |-> "lit", s |-> w]                 \* literal, (?i)
Alt(rs) == [t |-> "alt", of |-> rs]               \* a|b|c
Cat(rs) == [t |-> "cat", of |-> rs]               \* concatenation
Opt(r) == [t |-> "opt", r |-> r]                  \* (?:r)?  greedy
Plus(cls) == [t |-> "plus", cls |-> cls]          \* [class]+ greedy
Grp(n, r) == [t |-> "grp", n |-> n, r |-> r]      \* capture group n

Words(ws) == Alt([k \in 1..Len(ws) |-> Lit(ws[k])])
WS == Plus("space")                               \* \s+
Digits == Plus("digit")                           \* \d+
Name == Plus("name")                              \* [A-Za-z\s]+

InClass(cls, c) ==
  CASE cls = "space" -> IsSpace(c)
    [] cls = "digit" -> IsDigit(c)
    [] cls = "name"  -> IsLetter(c) \/ IsSpace(c)

RECURSIVE RunLength(_, _, _)
RunLength(cls, s, i) ==
  IF i <= Len(s) /\ InClass(cls, CharAt(s, i)) THEN 1 + RunLength(cls, s, i + 1) ELSE 0

LitAt(w, s, i) ==
  /\ i + Len(w) - 1 <= Len(s)
  /\ \A k \in 1..Len(w) : LowerChar(CharAt(s, i + k - 1)) = LowerChar(CharAt(w, k))

NoGroups == [k \in 1..3 |-> None]

RECURSIVE Match(_, _, _, _)
RECURSIVE MatchCat(_, _, _, _, _)
RECURSIVE MatchAlt(_, _, _, _, _)
RECURSIVE Continue(_, _, _, _, _)

Match(r, s, i, caps) ==
  CASE r.t = "lit"  -> IF LitAt(r.s, s, i) THEN <<[e |-> i + Len(r.s), c |-> caps]>> ELSE <<>>
    [] r.t = "plus" -> LET n == RunLength(r.cls, s, i)
                       IN  [k \in 1..n |-> [e |-> i + (n - k + 1), c |-> caps]]
    [] r.t = "alt"  -> MatchAlt(r.of, 1, s, i, caps)
    [] r.t = "cat"  -> MatchCat(r.of, 1, s, i, caps)
    [] r.t = "opt"  -> Match(r.r, s, i, caps) \o <<[e |-> i, c |-> caps]>>
    [] r.t = "grp"  -> LET inner == Match(r.r, s, i, caps)
                       IN  [k \in 1..Len(inner) |->
                              [e |-> inner[k].e,
                               c |-> [inner[k].c EXCEPT ![r.n] = SubSeq(s, i, inner[k].e - 1)]]]

MatchAlt(rs, k, s, i, caps) ==
  IF k > Len(rs) THEN <<>>
  ELSE Match(rs[k], s, i, caps) \o MatchAlt(rs, k + 1, s, i, caps)

\* the matches of rs[k..] after each of the ways `heads` matched rs[k-1]
Continue(heads, rs, k, s, j) ==
  IF j > Len(heads) THEN <<>>
  ELSE MatchCat(rs, k, s, heads[j].e, heads[j].c) \o Continue(heads, rs, k, s, j + 1)

MatchCat(rs, k, s, i, caps) ==
  IF k > Len(rs) THEN <<[e |-> i, c |-> caps]>>
  ELSE Continue(Match(rs[k], s, i, caps), rs, k + 1, s, 1)

\* re.search(pattern, s): the preferred match at the leftmost start, or None
MatchesAt(r, s, i) == Match(r, s, i, NoGroups)
SearchStarts(r, s) == {i \in 1..(Len(s) + 1) : Len(MatchesAt(r, s, i)) > 0}
ReSearch(r, s) ==
  LET starts == SearchStarts(r, s)
  IN  IF starts = {} THEN [found |-> FALSE]
      ELSE LET i == CHOOSE a \in starts : \A b \in starts : a <= b
           IN  [found |-> TRUE, groups |-> Head(MatchesAt(r, s, i)).c]

-----------------------------------------------------------------------------
(* PromptProcessor.patterns, in the order of the dict literal              *)

OptW(w) == Opt(Cat(<<Lit(w), WS>>))               \* (?:w\s+)?

historical ==
  Cat(<<Words(<<"get", "show", "display">>), WS, Grp(1, Digits), WS,
        Grp(2, Words(<<"year", "month", "day", "week">>)), Opt(Lit("s")), WS,
        Words(<<"data", "history">>), WS, OptW("of"), Grp(3, Name)>>)

top_performers ==
  Cat(<<Words(<<"show", "get", "display">>), WS, Lit("top"), WS, Grp(1, Digits), WS,
        OptW("performing"), Lit("stocks"), WS, Words(<<"in", "for", "over">>), WS,
        OptW("the"), OptW("last"), Grp(2, Digits), WS,
        Grp(3, Words(<<"day", "month", "week">>)), Opt(Lit("s"))>>)

trend_analysis ==
  Cat(<<Words(<<"show", "get", "analyze", "give">>), WS, OptW("me"), OptW("a"),
        Lit("trend"), WS, Lit("analysis"), WS, OptW("of"), Opt(Grp(1, Name))>>)

stock_details ==
  Cat(<<Words(<<"get", "show", "display">>), WS, OptW("me"), OptW("the"), OptW("stock"),
        Words(<<"details", "data", "info">>), WS, OptW("of"), Grp(1, Name)>>)

price_movement ==
  Cat(<<Words(<<"analyze", "show">>), WS, OptW("the"), Lit("price"), WS, Lit("movement"), WS,
        OptW("of"), Grp(1, Name), WS, Words(<<"in", "for", "over">>), WS,
        OptW("the"), OptW("last"), Grp(2, Digits), WS,
        Grp(3, Words(<<"day", "month", "week">>)), Opt(Lit("s"))>>)

market_sentiment ==
  Cat(<<Words(<<"what", "how">>), WS, Lit("is"), WS, OptW("the"), Lit("market"), WS,
        Lit("sentiment"), WS, OptW("for"), Opt(Grp(1, Name))>>)

volume_analysis ==
  Cat(<<Words(<<"analyze", "show">>), WS, OptW("the"), Lit("volume"), WS,
        Words(<<"analysis", "data">>), WS, OptW("of"), Grp(1, Name)>>)

sector_performance ==
  Cat(<<Words(<<"how", "what">>), WS, Lit("is"), WS, OptW("the"), Grp(1, Name), WS,
        Lit("sector"), WS, Words(<<"performance", "doing">>)>>)

comparison ==
  Cat(<<Words(<<"compare", "show">>), WS, OptW("the"), OptW("performance"), OptW("of"),
        Grp(1, Name), WS, Words(<<"with", "and", "vs">>), WS, Grp(2, Name)>>)

support_resistance ==
  Cat(<<Words(<<"show", "get", "find">>), WS, OptW("the"), Lit("support"), WS, Lit("and"), WS,
        Lit("resistance"), WS, OptW("levels"), OptW("for"), Grp(1, Name)>>)

moving_averages ==
  Cat(<<Words(<<"show", "get", "calculate">>), WS, OptW("the"),
        Opt(Cat(<<Grp(1, Digits), WS, Lit("day"), WS>>)),
        Lit("moving"), WS, Lit("average"), WS, OptW("for"), Grp(2, Name)>>)

rsi_analysis ==
  Cat(<<Words(<<"show", "get", "calculate">>), WS, OptW("the"), Lit("rsi"), WS,
        OptW("analysis"), OptW("for"), Grp(1, Name)>>)

dividend_history ==
  Cat(<<Words(<<"show", "get">>), WS, OptW("the"), Lit("dividend"), WS, Lit("history"), WS,
        OptW("of"), Grp(1, Name)>>)

news_sentiment ==
  Cat(<<Words(<<"show", "get">>), WS, OptW("the"), Lit("news"), WS, Lit("sentiment"), WS,
        OptW("for"), Grp(1, Name)>>)

patterns ==
  << [name |-> "historical",         re |-> historical],
     [name |-> "top_performers",     re |-> top_performers],
     [name |-> "trend_analysis",     re |-> trend_analysis],
     [name |-> "stock_details",      re |-> stock_details],
     [name |-> "price_movement",     re |-> price_movement],
     [name |-> "market_sentiment",   re |-> market_sentiment],
     [name |-> "volume_analysis",    re |-> volume_analysis],
     [name |-> "sector_performance", re |-> sector_performance],
     [name |-> "comparison",         re |-> comparison],
     [name |-> "support_resistance", re |-> support_resistance],
     [name |-> "moving_averages",    re |-> moving_averages],
     [name |-> "rsi_analysis",       re |-> rsi_analysis],
     [name |-> "dividend_history",   re |-> dividend_history],
     [name |-> "news_sentiment",     re |-> news_sentiment] >>

-----------------------------------------------------------------------------
(* Exceptions and datetimes                                                *)

Raise(msg) == [raised |-> TRUE, exc |-> msg]
Return(v) == [raised |-> FALSE, value |-> v]

\* a datetime: day number and second of the day; timedelta(days=n) moves d
SecondsPerDay == 86400
DateMinusDays(dt, n) == [d |-> dt.d - n, s |-> dt.s]
DateLE(a, b) == a.d < b.d \/ (a.d = b.d /\ a.s <= b.s)
SecondsBetween(later, earlier) == (later.d - earlier.d) * SecondsPerDay + (later.s - earlier.s)
IsDatetime(v) == DOMAIN v = {"d", "s"}

-----------------------------------------------------------------------------
(* PromptProcessor                                                         *)

\* a unit table with a calendar-length month
unit_mapping_month31 == [day |-> 1, week |-> 7, month |-> 31, year |-> 365]

\* _calculate_date_range: days per unit of unit_mapping
unit_mapping == [day |-> 1, week |-> 7, month |-> 30, year |-> 365]

_calculate_date_range(duration, unit, today) ==
  LET u == StrLower(unit)
  IN  IF u \in DOMAIN unit_mapping
      THEN Return(DateMinusDays(today, unit_mapping[u] * duration))
      ELSE Raise("'" \o u \o "'")

\* dict.get(key, default)
Get(dict, key, default) == IF key \in DOMAIN dict THEN dict[key] ELSE default

\* truth value of a str-or-None
Truthy(v) == v # None /\ v # ""

\* An instrument mapper as PromptProcessor sees it: whether the object has
\* a get_all_instruments method, and the instrument dicts it would return.
HasAttr(mapper, attr) == attr \in mapper.methods

InstrumentMatches(query, instrument) ==
  \/ StrContains(query, instrument["tradingsymbol"])
  \/ StrContains(query, StrUpper(Get(instrument, "company_name", "")))

MatchEntry(instrument) ==
  [symbol |-> instrument["tradingsymbol"],
   name |-> Get(instrument, "company_name", instrument["tradingsymbol"]),
   exchange |-> instrument["exchange"],
   instrument_type |-> instrument["instrument_type"],
   token |-> Get(instrument, "instrument_token", None)]

find_matching_instruments(mapper, query0) ==
  LET query == StrUpper(Strip(query0))
      all == mapper.instruments
      KeyError(ins) ==
        \/ "tradingsymbol" \notin DOMAIN ins
        \/ /\ InstrumentMatches(query, ins)
           /\ ~ {"exchange", "instrument_type"} \subseteq DOMAIN ins
      hits == SelectSeq(all, LAMBDA ins : InstrumentMatches(query, ins))
  IN  IF ~ HasAttr(mapper, "get_all_instruments") THEN <<>>        \* AttributeError, caught
      ELSE IF \E k \in 1..Len(all) : KeyError(all[k]) THEN <<>>    \* KeyError, caught
      ELSE [k \in 1..Len(hits) |-> MatchEntry(hits[k])]

_extract_basic_parameters(groups, query_type, today) ==
  IF query_type \in {"historical", "price_movement"}
  THEN LET duration == groups[1]
           unit == groups[2]
           symbol == groups[3]
       IN  IF ~ IsIntLiteral(duration)
           THEN Raise("invalid literal for int() with base 10: '" \o duration \o "'")
           ELSE LET from_date == _calculate_date_range(ParseInt(duration), unit, today)
                IN  IF from_date.raised THEN from_date
                    ELSE Return([duration |-> ParseInt(duration), unit |-> unit,
                                 symbol |-> Strip(symbol), from_date |-> from_date.value])
  ELSE IF query_type = "top_performers"
  THEN LET count == groups[1]
           duration == groups[2]
           unit == groups[3]
           from_date == _calculate_date_range(ParseInt(duration), unit, today)
       IN  IF from_date.raised THEN from_date
           ELSE Return([count |-> ParseInt(count), duration |-> ParseInt(duration),
                        unit |-> unit, from_date |-> from_date.value])
  ELSE LET symbol == groups[1]
       IN  Return([symbol |-> IF symbol # None /\ symbol # "" THEN Strip(symbol) ELSE None,
                   duration |-> 30, unit |-> "day",
                   from_date |-> _calculate_date_range(30, "day", today).value])

\* one search whose candidates are listed under both symbols
ComparisonMatches_one_search(mapper, symbol1, symbol2) ==
  [symbol1 |-> find_matching_instruments(mapper, symbol1),
   symbol2 |-> find_matching_instruments(mapper, symbol1)]

\* result['matches'] of a comparison: one search per symbol
ComparisonMatches(mapper, symbol1, symbol2) ==
  [symbol1 |-> find_matching_instruments(mapper, symbol1),
   symbol2 |-> find_matching_instruments(mapper, symbol2)]

\* a moving average that defaults to 20 days
MovingAveragePeriod_default_20(captured) == IF Truthy(captured) THEN captured ELSE "20"

\* `period = match.group(1) or '50'`
MovingAveragePeriod(captured) == IF Truthy(captured) THEN captured ELSE "50"

\* the body of `if match:` up to the candidate search: parameters and, for a
\* comparison, the two candidate lists; searches lists the queries looked up
ExtractParameters(mapper, query_type, groups, today) ==
  CASE query_type = "moving_averages" ->
         LET period == MovingAveragePeriod(groups[1])
             symbol == groups[2]
         IN  Return([parameters |-> [symbol |-> Strip(symbol), period |-> ParseInt(period),
                                     from_date |-> _calculate_date_range(ParseInt(period), "day", today).value],
                     matches |-> <<>>, searches |-> <<>>])
    [] query_type = "comparison" ->
         LET symbol1 == groups[1]
             symbol2 == groups[2]
         IN  Return([parameters |-> [symbol1 |-> Strip(symbol1), symbol2 |-> Strip(symbol2),
                                     duration |-> 30, unit |-> "day"],
                     matches |-> ComparisonMatches(mapper, symbol1, symbol2),
                     searches |-> <<symbol1, symbol2>>])
    [] query_type = "sector_performance" ->
         Return([parameters |-> [sector |-> Strip(groups[1]), duration |-> 30, unit |-> "day"],
                 matches |-> <<>>, searches |-> <<>>])
    [] query_type = "support_resistance" ->
         Return([parameters |-> [symbol |-> Strip(groups[1]), duration |-> 90, unit |-> "day"],
                 matches |-> <<>>, searches |-> <<>>])
    [] query_type = "rsi_analysis" ->
         Return([parameters |-> [symbol |-> Strip(groups[1]), period |-> 14,
                                 duration |-> 30, unit |-> "day"],
                 matches |-> <<>>, searches |-> <<>>])
    [] query_type = "volume_analysis" ->
         Return([parameters |-> [symbol |-> Strip(groups[1]), duration |-> 30, unit |-> "day"],
                 matches |-> <<>>, searches |-> <<>>])
    [] OTHER ->
         LET basic == _extract_basic_parameters(groups, query_type, today)
         IN  IF basic.raised THEN basic
             ELSE Return([parameters |-> basic.value, matches |-> <<>>, searches |-> <<>>])

\* resolution that guesses the first of several candidates
ResolveSymbol_first_candidate(mapper, ex) ==
  IF Truthy(Get(ex.parameters, "symbol", None))
  THEN LET matches == find_matching_instruments(mapper, ex.parameters.symbol)
           searches == ex.searches \o <<ex.parameters.symbol>>
       IN  IF Len(matches) >= 1
           THEN [parameters |-> [k \in DOMAIN ex.parameters \cup {"instrument_token"} |->
                                   CASE k = "symbol" -> matches[1].symbol
                                     [] k = "instrument_token" -> matches[1].token
                                     [] OTHER -> ex.parameters[k]],
                 matches |-> matches, searches |-> searches]
           ELSE [parameters |-> ex.parameters, matches |-> matches, searches |-> searches]
  ELSE ex

\* `if result['parameters'].get('symbol'):` -- search, and resolve a single hit
ResolveSymbol(mapper, ex) ==
  IF Truthy(Get(ex.parameters, "symbol", None))
  THEN LET matches == find_matching_instruments(mapper, ex.parameters.symbol)
           searches == ex.searches \o <<ex.parameters.symbol>>
       IN  IF Len(matches) = 1
           THEN [parameters |-> [k \in DOMAIN ex.parameters \cup {"instrument_token"} |->
                                   CASE k = "symbol" -> matches[1].symbol
                                     [] k = "instrument_token" -> matches[1].token
                                     [] OTHER -> ex.parameters[k]],
                 matches |-> matches, searches |-> searches]
           ELSE [parameters |-> ex.parameters, matches |-> matches, searches |-> searches]
  ELSE ex

OnMatch(mapper, prompt, query_type, groups, today) ==
  LET ex == ExtractParameters(mapper, query_type, groups, today)
  IN  IF ex.raised THEN ex
      ELSE LET res == ResolveSymbol(mapper, ex.value)
           IN  Return([result |-> [action |-> "get_" \o query_type,
                                   parameters |-> res.parameters,
                                   matches |-> res.matches,
                                   query_type |-> query_type,
                                   original_prompt |-> prompt],
                       searches |-> res.searches])

\* a null intent whose action is still formatted from the query type
NoIntent_action_formatted(prompt) ==
  [action |-> "get_None", parameters |-> <<>>, matches |-> <<>>, query_type |-> None,
   original_prompt |-> prompt]

NoIntent(prompt) ==
  [action |-> None, parameters |-> <<>>, matches |-> <<>>, query_type |-> None,
   original_prompt |-> prompt]

-----------------------------------------------------------------------------
(* Inputs                                                                  *)

\* user messages: the example prompts of get_example_prompts, the prompts
\* of the specification, and variations that exercise each pattern
Texts ==
  {"Show me 5 year data of TCS",
   "Get top 10 performing stocks in last 30 days",
   "Show trend analysis of Reliance",
   "Compare performance of HDFC with ICICI",
   "Show 200 day moving average for Infosys",
   "Calculate RSI analysis for Wipro",
   "Show support and resistance levels for TATA MOTORS",
   "What is the market sentiment for IT sector",
   "Show volume analysis of SBI",
   "Get dividend history of ITC",
   "asdkfj",
   "",
   "Show 5 year data of TCS",
   "Analyze price movement of TCS in last 5 days",
   "Show moving average for INFY",
   "How is the banking sector doing",
   "Show news sentiment for Wipro",
   "Get stock details of INFY",
   "Show data of TCS",
   "Show trend analysis ",
   "Show trend analysis",
   "What is market sentiment ",
   "Show volume data of TCS",
   "Show the stock info of HDFC and ICICI",
   "Show 0 day data of TCS",
   "Display 2 weeks history INFY",
   "Get 3 Months data of SBI",
   "Show rsi for INFY",
   "Find support and resistance for SBI",
   "Get support and resistance levels for SBI",
   "Show HDFC vs ICICI",
   "show top 5 stocks for 2 weeks",
   "Calculate 20 day moving average for TCS",
   "please show rsi analysis for tcs today",
   "Show price movement of INFY over the last 2 months",
   "What is the IT sector performance",
   "Show dividend history of TCS and INFY",
   "Get trend analysis of TCS and INFY",
   "Show 200 days moving average for Infosys",
   "Get data of 5 stocks",
   "Show 1 year data of HDFC vs ICICI",
   "forget 2 day data of SBI",
   "Show  the   RSI   for   TCS  ",
   "Get news sentiment for HDFC BANK",
   "Compare TCS and INFY and WIPRO",
   "What is the market sentiment for 5",
   "Give me a trend analysis of TATA",
   "Show 12 DAY history of Wipro",
   "Show rsi  ",
   "Show rsi for HDFC"}

\* re.search of every pattern on every text, computed once
PatternHits ==
  [text \in Texts |-> [k \in 1..Len(patterns) |-> ReSearch(patterns[k].re, text)]]

\* utils.InstrumentMapper as main.py constructs it: its public methods and
\* the records _process_master_data keeps
UtilsMapperMethods ==
  {"initialize", "refresh_master_data", "smart_search", "get_instrument_by_token",
   "get_instruments_by_type", "get_instruments_by_exchange", "get_instrument_by_isin",
   "set_access_token", "get_headers", "setup_logging"}

MasterRecord(exchange, symbol, name, token) ==
  [instrument_key |-> exchange \o "-" \o symbol, exchange |-> exchange,
   trading_symbol |-> symbol, name |-> name, instrument_type |-> "EQ",
   short_name |-> symbol, isin |-> None, lot_size |-> None, tick_size |-> None,
   strike |-> None, expiry |-> None, token |-> token]

LoadedMaster ==
  << MasterRecord("NSE", "INFY", "Infosys Limited", "1594"),
     MasterRecord("NSE", "TCS", "Tata Consultancy Services", "2953"),
     MasterRecord("NSE", "HDFCBANK", "HDFC Bank Limited", "1333") >>

UtilsMapper(instruments) == [methods |-> UtilsMapperMethods, instruments |-> instruments]

\* a mapper of the shape find_matching_instruments reads: get_all_instruments
\* returning dicts keyed tradingsymbol / company_name / instrument_token
Listed(symbol, name, token) ==
  [tradingsymbol |-> symbol, company_name |-> name, exchange |-> "NSE",
   instrument_type |-> "EQ", instrument_token |-> token]

Directory ==
  << Listed("INFY", "Infosys Limited", "1594"),
     Listed("TCS", "Tata Consultancy Services", "2953"),
     Listed("HDFCBANK", "HDFC Bank Limited", "1333"),
     Listed("HDFCLIFE", "HDFC Life Insurance Company", "467"),
     Listed("ICICIBANK", "ICICI Bank Limited", "4963"),
     Listed("SBIN", "State Bank of India", "3045"),
     [tradingsymbol |-> "WIPRO", exchange |-> "NSE", instrument_type |-> "EQ"] >>

ListingMapper(instruments) == [methods |-> {"get_all_instruments"}, instruments |-> instruments]

Mappers ==
  { UtilsMapper(LoadedMaster), UtilsMapper(<<>>),
    ListingMapper(Directory), ListingMapper(<<>>), ListingMapper(LoadedMaster) }

\* datetime.now() when the program starts, and the clock's step
StartDay == 20758
StartSecond == 36000
TickSeconds == 150
MaxTicks == 2

\* ---- what the network answers ----

Bar(open, high, low, close, volume) ==
  [open |-> open, high |-> high, low |-> low, close |-> close, volume |-> volume]

\* the 'data' of a historical body: a list of bar dicts, one bar only, the
\* endpoint's {candles: [[ts, o, h, l, c, v, oi], ...]}, or bare rows of seven
Rising == [format |-> "records", bars |-> <<Bar(100, 110, 95, 105, 1000), Bar(105, 120, 100, 118, 1500)>>]
OneBar == [format |-> "records", bars |-> <<Bar(100, 110, 95, 105, 1000)>>]
Candles == [format |-> "candles", bars |-> << <<1, 100, 110, 95, 105, 1000, 0>>, <<2, 105, 120, 100, 118, 1500, 0>> >>]
Rows7 == [format |-> "rows7", bars |-> << <<1, 100, 110, 95, 105, 1000, 0>>, <<2, 105, 120, 100, 118, 1500, 0>> >>]

NetOk(data) == [quote |-> "ok", hist |-> "ok", data |-> data]
QuoteError == [quote |-> "error", hist |-> "ok", data |-> Rising]
HistError == [quote |-> "ok", hist |-> "error", data |-> Rising]
NoSymbol == [quote |-> "no_symbol", hist |-> "ok", data |-> Rising]
NoData == [quote |-> "ok", hist |-> "no_data", data |-> Rising]

StockNets == {NetOk(Rising), NetOk(OneBar), NetOk(Candles), QuoteError, HistError, NoSymbol, NoData}

\* the answers to a handler's first and second fetch
HandlerNets == {<<net, NetOk(Rising)>> : net \in StockNets} \cup {<<NetOk(Rising), HistError>>}
MessageNets == {<<NetOk(Rising), NetOk(Rising)>>, <<QuoteError, NetOk(Rising)>>}
HistNets == {NetOk(Rows7), NetOk(Candles), HistError, NoData}

-----------------------------------------------------------------------------
(* PromptProcessor.process_prompt                                          *)

RECURSIVE PatternLoop(_, _, _, _)
PatternLoop(mapper, prompt, today, k) ==
  IF k > Len(patterns) THEN Return([result |-> NoIntent(prompt), searches |-> <<>>])
  ELSE LET match == PatternHits[prompt][k]
       IN  IF match.found
           THEN OnMatch(mapper, prompt, patterns[k].name, match.groups, today)  \* break
           ELSE PatternLoop(mapper, prompt, today, k + 1)

\* the call with what it did: its return value and the directory searches
ProcessPromptCall(mapper, prompt, today) ==
  LET body == PatternLoop(mapper, prompt, today, 1)
  IN  IF body.raised
      THEN [result |-> [action |-> None, error |-> body.exc, original_prompt |-> prompt],
            searches |-> <<>>]
      ELSE body.value

process_prompt(mapper, prompt, today) == ProcessPromptCall(mapper, prompt, today).result

-----------------------------------------------------------------------------
(* StockProcessor                                                          *)

\* dict[key] = value
Put(dict, key, value) == (key :> value) @@ dict

\* a failure that still carries a data field
Failure_with_data(msg) == [success |-> FALSE, error |-> msg, data |-> <<>>]

Failure(msg) == [success |-> FALSE, error |-> msg]
Success(data) == [success |-> TRUE, data |-> data]

\* a step of a call's trace
Ev(ev, arg) == [ev |-> ev, arg |-> arg]

\* what a call yields: its return value, the cache afterwards, its trace
Done(ret, cache, trace) == [ret |-> ret, cache |-> cache, trace |-> trace]

\* a cache window twice as long
_cache_timeout_doubled == 2 * 300

\* StockProcessor._cache_timeout, seconds
_cache_timeout == 300

\* cache_key = f"{symbol}_{from_date.strftime('%Y%m%d')}": the symbol and the day
CacheKey(symbol, from_date) == <<symbol, from_date.d>>

CacheFresh(cache, key, today) ==
  /\ key \in DOMAIN cache
  /\ SecondsBetween(today, cache[key].timestamp) < _cache_timeout

\* What the two endpoints answer to one get_stock_data call:
\*   quote: "ok", "error" (connection or HTTP error), "no_symbol" (the body
\*          has no entry for the symbol)
\*   hist:  "ok", "error", "no_data" (the body has no 'data')
\*   data:  the 'data' of the historical body
formatted_symbol(symbol) == "NSE_EQ|" \o symbol

\* one call: what it returns, the cache afterwards, and its trace -- the
\* call, the requests it sent, and the value it returned
Fetched(ret, cache, symbol, requests) ==
  [ret |-> ret, cache |-> cache,
   trace |-> <<Ev("get_stock_data", symbol)>> \o requests \o <<Ev("returned", ret)>>]

get_stock_data(cache, symbol, from_date, today, net) ==
  LET key == CacheKey(symbol, from_date)
      quote == <<Ev("GET", "quote")>>
      both == <<Ev("GET", "quote"), Ev("GET", "historical")>>
  IN  IF CacheFresh(cache, key, today)
      THEN Fetched(cache[key].data, cache, symbol, <<>>)
      ELSE IF net.quote = "error"
      THEN Fetched(Failure("quote request failed"), cache, symbol, quote)
      ELSE IF net.hist = "error"
      THEN Fetched(Failure("historical request failed"), cache, symbol, both)
      ELSE IF net.quote = "no_symbol"
      THEN Fetched(Failure("'" \o formatted_symbol(symbol) \o "'"), cache, symbol, both)
      ELSE IF net.hist = "no_data"
      THEN Fetched(Failure("'data'"), cache, symbol, both)
      ELSE LET result == Success([symbol |-> symbol,
                                  current |-> [instrument |-> formatted_symbol(symbol)],
                                  historical |-> net.data,
                                  timestamp |-> today])
           IN  Fetched(result, Put(cache, key, [data |-> result, timestamp |-> today]),
                       symbol, both)

\* tasks = [get_stock_data(symbol, from_date) for symbol in symbols] under
\* asyncio.gather: get_stock_data never awaits, so the tasks run one after the
\* other in the order of the list; nets[k] answers the k-th of them
RECURSIVE GatherLoop(_, _, _, _, _, _, _)
GatherLoop(symbols, k, from_date, cache, today, nets, acc) ==
  IF k > Len(symbols) THEN [results |-> acc.results, cache |-> cache, trace |-> acc.trace]
  ELSE LET f == get_stock_data(cache, symbols[k], from_date, today, nets[k])
       IN  GatherLoop(symbols, k + 1, from_date, f.cache, today, nets,
                      [results |-> Append(acc.results, f.ret), trace |-> acc.trace \o f.trace])

\* {symbol: result for symbol, result in zip(symbols, results)}: a symbol
\* listed twice keeps its last result
ZipDict(symbols, results) ==
  [symbol \in {symbols[k] : k \in 1..Len(symbols)} |->
     results[CHOOSE k \in 1..Len(symbols) :
               /\ symbols[k] = symbol
               /\ \A j \in 1..Len(symbols) : symbols[j] = symbol => j <= k]]

\* get_multiple_stocks_data: every result, failed or not, under its symbol
get_multiple_stocks_data(cache, symbols, from_date, today, nets) ==
  LET g == GatherLoop(symbols, 1, from_date, cache, today, nets,
                      [results |-> <<>>, trace |-> <<>>])
  IN  Done(Success(ZipDict(symbols, g.results)), g.cache,
           g.trace \o <<Ev("compute", "get_multiple_stocks_data")>>)

\* pd.DataFrame(stock_data['data']['historical']): the columns and the rows.
\* A list of bar dicts gives the bar columns; the endpoint's own
\* {candles: [[...], ...]} gives the single column 'candles'.
BarColumns == {"open", "high", "low", "close", "volume"}
DataFrame(hist_data) ==
  IF hist_data.format = "records"
  THEN [columns |-> IF Len(hist_data.bars) = 0 THEN {} ELSE BarColumns,
        rows |-> hist_data.bars]
  ELSE [columns |-> {"candles"}, rows |-> hist_data.bars]

\* series.rolling(window=window, center=True): the rows under the window
\* labelled k -- the trailing window shifted back by (window - 1) // 2 -- and
\* {} where the window does not lie within the series (the value is NaN)
RollingCentered(rows, window, k) ==
  LET last_row == k + (window - 1) \div 2
      first_row == last_row - window + 1
  IN  IF first_row >= 1 /\ last_row <= Len(rows) THEN first_row..last_row ELSE {}

\* df[df[field] == df[field].rolling(...).max()][field].unique(): the values
\* that equal the extreme of their window; NaN equals nothing
LocalExtremes(rows, field, window, greatest) ==
  {rows[k][field] : k \in {i \in 1..Len(rows) :
      /\ RollingCentered(rows, window, i) # {}
      /\ \A j \in RollingCentered(rows, window, i) :
           IF greatest THEN rows[j][field] <= rows[i][field]
           ELSE rows[j][field] >= rows[i][field]}}

\* sorted(values): a Python list, ascending
RECURSIVE Sorted(_)
Sorted(values) ==
  IF values = {} THEN <<>>
  ELSE LET least == CHOOSE v \in values : \A w \in values : v <= w
       IN  <<least>> \o Sorted(values \ {least})

\* levels[-5:] and levels[:5]
LastFive(levels) == SubSeq(levels, IF Len(levels) > 5 THEN Len(levels) - 4 ELSE 1, Len(levels))
FirstFive(levels) == SubSeq(levels, 1, IF Len(levels) > 5 THEN 5 ELSE Len(levels))

\* the attributes of a Python list, among those the code reads
ListAttributes == {"append", "sort", "index", "count"}

\* StockProcessor.find_support_resistance: its own try.  sorted(...)[-5:] is a
\* list, so .tolist() raises AttributeError and the except returns the empty
\* levels, as it does for a missing column or a window below 1
find_support_resistance(df, window) ==
  IF ~ ({"high", "low"} \subseteq df.columns) \/ window < 1
  THEN [support |-> <<>>, resistance |-> <<>>]
  ELSE LET resistance_levels == LastFive(Sorted(LocalExtremes(df.rows, "high", window, TRUE)))
           support_levels == FirstFive(Sorted(LocalExtremes(df.rows, "low", window, FALSE)))
       IN  IF "tolist" \in ListAttributes
           THEN [support |-> support_levels, resistance |-> resistance_levels]
           ELSE [support |-> <<>>, resistance |-> <<>>]

KeyError(key) == Raise("'" \o key \o "'")
AttributeError(obj, attr) == Raise("'" \o obj \o "' object has no attribute '" \o attr \o "'")
IndexError == Raise("single positional indexer is out-of-bounds")

-----------------------------------------------------------------------------
(* HistoricalDataFetcher                                                   *)

\* self._cache_duration = timedelta(minutes=5), in seconds
_cache_duration == 300

\* self.instrument_mapper.get_instrument_by_symbol(symbol), for a mapper that
\* has the method: <<record>> listed under the symbol, or <<>> for None
get_instrument_by_symbol(mapper, symbol) ==
  LET hits == {k \in 1..Len(mapper.instruments) :
                 Get(mapper.instruments[k], "tradingsymbol", None) = symbol}
  IN  IF hits = {} THEN <<>>
      ELSE <<mapper.instruments[CHOOSE k \in hits : \A j \in hits : k <= j]>>

\* _get_from_cache: the entry's data while it is fresh; a stale entry is deleted
_get_from_cache(hist_cache, key, today) ==
  IF key \notin DOMAIN hist_cache THEN [hit |-> FALSE, cache |-> hist_cache]
  ELSE IF SecondsBetween(today, hist_cache[key].timestamp) < _cache_duration
  THEN [hit |-> TRUE, data |-> hist_cache[key].data, cache |-> hist_cache]
  ELSE [hit |-> FALSE, cache |-> [k \in DOMAIN hist_cache \ {key} |-> hist_cache[k]]]

_add_to_cache(hist_cache, key, data, today) ==
  Put(hist_cache, key, [data |-> data, timestamp |-> today])

\* _process_historical_data: its own try.  Only rows of seven values carry a
\* timestamp; without one start_date is NaT and strftime raises.
_process_historical_data(raw_data, instrument) ==
  LET missing == {"tradingsymbol", "exchange", "instrument_type"} \ DOMAIN instrument
  IN  IF "tradingsymbol" \notin DOMAIN instrument THEN Failure("'tradingsymbol'")
      ELSE IF missing # {} THEN Failure("'" \o (CHOOSE k \in missing : TRUE) \o "'")
      ELSE IF raw_data.format # "rows7" THEN Failure("NaTType does not support strftime")
      ELSE Success([symbol |-> instrument.tradingsymbol,
                    name |-> Get(instrument, "name", None),
                    exchange |-> instrument.exchange,
                    instrument_type |-> instrument.instrument_type,
                    historical_data |-> raw_data.bars,
                    metadata |-> [total_days |-> Len(raw_data.bars)]])

\* get_historical_data(symbol, from_date) with to_date and interval defaulted
get_historical_data(hist_cache, mapper, symbol, from_date, today, net) ==
  IF ~ HasAttr(mapper, "get_instrument_by_symbol")
  THEN Done(Failure(AttributeError("InstrumentMapper", "get_instrument_by_symbol").exc),
            hist_cache, <<>>)
  ELSE
    LET instrument == get_instrument_by_symbol(mapper, symbol)
        key == <<symbol, from_date.d, today.d, "1day">>
        cached == _get_from_cache(hist_cache, key, today)
        request == <<Ev("GET", "historical")>>
    IN  IF instrument = <<>> THEN Done(Failure("Invalid symbol: " \o symbol), hist_cache, <<>>)
        ELSE IF cached.hit THEN Done(cached.data, cached.cache, <<>>)
        ELSE IF net.hist = "error"
        THEN Done(Failure("historical request failed"), cached.cache, request)
        ELSE IF net.hist = "no_data" \/ Len(net.data.bars) = 0
        THEN Done(Failure("No data received from API"), cached.cache, request)
        ELSE LET processed_data == _process_historical_data(net.data, instrument[1])
             IN  Done(processed_data,
                      _add_to_cache(cached.cache, key, processed_data, today), request)

-----------------------------------------------------------------------------
(* AnalysisProcessor: the handlers                                         *)
(* A handler takes the parameters, the StockProcessor cache, the clock and *)
(* the answers of the network to its successive fetches; it yields its     *)
(* return value, the cache afterwards and the trace of what it did.        *)

\* f"{params['duration']} {params['unit']}(s)"
PeriodText(params) == ToString(params.duration) \o " " \o params.unit \o "(s)"

PeriodKeyError(params) ==
  IF "duration" \notin DOMAIN params THEN KeyError("duration") ELSE KeyError("unit")

HasPeriod(params) == {"duration", "unit"} \subseteq DOMAIN params

RECURSIVE SumOf(_, _)
SumOf(rows, field) ==
  IF Len(rows) = 0 THEN 0 ELSE rows[1][field] + SumOf(Tail(rows), field)

\* series.iloc[-1] > series.mean()
LastAboveMean(rows, field) ==
  rows[Len(rows)][field] * Len(rows) > SumOf(rows, field)

_determine_trend(df) ==
  LET n == Len(df.rows)
  IN  IF LastAboveMean(df.rows, "close")
      THEN IF df.rows[n].close > df.rows[n - 1].close
           THEN "Bullish" ELSE "Bullish with correction"
      ELSE IF df.rows[n].close < df.rows[n - 1].close
           THEN "Bearish" ELSE "Bearish with pullback"

\* a float computed from the frame: defined, or NaN for want of rows
FloatOver(df, needed) == IF Len(df.rows) >= needed THEN "float" ELSE "nan"

\* await self.stock_processor.get_stock_data(params['symbol'], params['from_date'])
FetchSymbol(params, key, cache, today, net) ==
  IF key \notin DOMAIN params THEN Done(Failure("'" \o key \o "'"), cache, <<>>)
  ELSE IF "from_date" \notin DOMAIN params THEN Done(Failure("'from_date'"), cache, <<>>)
  ELSE get_stock_data(cache, params[key], params.from_date, today, net)

\* the try body after a successful fetch: its value, or the caught exception
Computed(fetched, body, name) ==
  Done(IF body.raised THEN Failure(body.exc) ELSE Success(body.value),
       fetched.cache, fetched.trace \o <<Ev("compute", name)>>)

PriceMovementBody(params, data) ==
  LET df == DataFrame(data.historical)
  IN  IF "close" \notin df.columns THEN KeyError("close")
      ELSE IF Len(df.rows) < 2 THEN IndexError
      ELSE IF ~ HasPeriod(params) THEN PeriodKeyError(params)
      ELSE Return([symbol |-> params.symbol,
                   period |-> PeriodText(params),
                   patterns |-> [double_top |-> FALSE, double_bottom |-> FALSE,
                                 head_shoulders |-> FALSE, triangle |-> FALSE],
                   momentum |-> [rsi |-> None, macd |-> None, trend |-> _determine_trend(df)],
                   metrics |-> [avg_daily_return |-> FloatOver(df, 2),
                                volatility |-> FloatOver(df, 21),
                                max_drawdown |-> FloatOver(df, 1)]])

_analyze_price_movement(params, cache, today, nets) ==
  LET f == FetchSymbol(params, "symbol", cache, today, nets[1])
  IN  IF ~ f.ret.success THEN f
      ELSE Computed(f, PriceMovementBody(params, f.ret.data), "_analyze_price_movement")

\* the methods class AnalysisProcessor defines
AnalysisProcessorMethods ==
  {"process_analysis_request", "_analyze_price_movement", "_analyze_market_sentiment",
   "_analyze_volume", "_analyze_sector", "_analyze_comparison",
   "_analyze_support_resistance", "_analyze_moving_averages", "_analyze_rsi",
   "_get_stock_details", "_calculate_max_drawdown", "_determine_trend",
   "_identify_price_patterns", "_calculate_price_strength", "_analyze_volume_trends",
   "_get_technical_signals", "_get_momentum_signals", "_generate_sentiment_summary",
   "_get_sector_stocks", "_calculate_sector_metrics", "_get_sector_top_performers",
   "_calculate_comparison_metrics", "_add_level_strength", "_calculate_ma_analysis",
   "_calculate_rsi_analysis", "_enhance_stock_details"}

MarketSentimentBody(params, data) ==
  LET df == DataFrame(data.historical)
  IN  IF "close" \notin df.columns THEN KeyError("close")
      ELSE IF "_analyze_volume_trend" \notin AnalysisProcessorMethods
      THEN AttributeError("AnalysisProcessor", "_analyze_volume_trend")
      ELSE Return([symbol |-> params.symbol,
                   summary |-> "Market sentiment analysis summary"])

_analyze_market_sentiment(params, cache, today, nets) ==
  LET f == FetchSymbol(params, "symbol", cache, today, nets[1])
  IN  IF ~ f.ret.success THEN f
      ELSE Computed(f, MarketSentimentBody(params, f.ret.data), "_analyze_market_sentiment")

\* series.is_monotonic_increasing / is_monotonic_decreasing
Monotonic(rows, field, increasing) ==
  \A k \in 1..(Len(rows) - 1) :
     IF increasing THEN rows[k][field] <= rows[k + 1][field]
     ELSE rows[k][field] >= rows[k + 1][field]

_analyze_volume_trends(df) ==
  [increasing |-> Monotonic(df.rows, "volume", TRUE),
   decreasing |-> Monotonic(df.rows, "volume", FALSE),
   avg_trend |-> IF LastAboveMean(df.rows, "volume") THEN "up" ELSE "down"]

\* StockProcessor.analyze_volume_profile: its own try, {} on any error
analyze_volume_profile(df) ==
  IF {"volume", "close"} \subseteq df.columns
  THEN [average_volume |-> FloatOver(df, 1), volume_std |-> FloatOver(df, 2),
        price_volume_correlation |-> FloatOver(df, 2)]
  ELSE <<>>

VolumeBody(params, data) ==
  LET df == DataFrame(data.historical)
  IN  IF "volume" \notin df.columns THEN KeyError("volume")
      ELSE IF ~ HasPeriod(params) THEN PeriodKeyError(params)
      ELSE Return([symbol |-> params.symbol,
                   volume_metrics |-> analyze_volume_profile(df),
                   volume_trends |-> _analyze_volume_trends(df),
                   period |-> PeriodText(params)])

_analyze_volume(params, cache, today, nets) ==
  LET f == FetchSymbol(params, "symbol", cache, today, nets[1])
  IN  IF ~ f.ret.success THEN f
      ELSE Computed(f, VolumeBody(params, f.ret.data), "_analyze_volume")

\* the stubs _add_level_strength, _calculate_ma_analysis and
\* _calculate_rsi_analysis return {}
LabelledBody(params, label) ==
  IF ~ HasPeriod(params) THEN PeriodKeyError(params)
  ELSE Return((label :> <<>>) @@ [symbol |-> params.symbol, period |-> PeriodText(params)])

_analyze_support_resistance(params, cache, today, nets) ==
  LET f == FetchSymbol(params, "symbol", cache, today, nets[1])
  IN  IF ~ f.ret.success THEN f
      ELSE Computed(f, LabelledBody(params, "levels"), "_analyze_support_resistance")

_analyze_moving_averages(params, cache, today, nets) ==
  LET f == FetchSymbol(params, "symbol", cache, today, nets[1])
  IN  IF ~ f.ret.success THEN f
      ELSE Computed(f, LabelledBody(params, "moving_averages"), "_analyze_moving_averages")

\* a handler that rewraps the failed fetch in an error of its own
_analyze_rsi_rewrapped(params, cache, today, nets) ==
  LET f == FetchSymbol(params, "symbol", cache, today, nets[1])
  IN  IF ~ f.ret.success THEN Done(Failure("Failed to fetch data"), f.cache, f.trace)
      ELSE Computed(f, LabelledBody(params, "rsi_analysis"), "_analyze_rsi")

_analyze_rsi(params, cache, today, nets) ==
  LET f == FetchSymbol(params, "symbol", cache, today, nets[1])
  IN  IF ~ f.ret.success THEN f
      ELSE Computed(f, LabelledBody(params, "rsi_analysis"), "_analyze_rsi")

\* _enhance_stock_details returns {}
_get_stock_details(params, cache, today, nets) ==
  LET f == FetchSymbol(params, "symbol", cache, today, nets[1])
  IN  IF ~ f.ret.success THEN f
      ELSE Computed(f, Return(<<>>), "_get_stock_details")

\* _get_sector_stocks: a stub that returns []
_get_sector_stocks(sector) == <<>>

\* `for symbol in sector_stocks:` from the k-th stock on; a failed fetch is
\* skipped, a successful one appended to sector_data
RECURSIVE SectorLoop(_, _, _, _, _, _, _)
SectorLoop(stocks, k, params, cache, today, nets, acc) ==
  IF k > Len(stocks) THEN [raised |-> FALSE, sector_data |-> acc.sector_data,
                           cache |-> cache, trace |-> acc.trace]
  ELSE IF "from_date" \notin DOMAIN params
  THEN [raised |-> TRUE, exc |-> "'from_date'", cache |-> cache, trace |-> acc.trace]
  ELSE LET f == get_stock_data(cache, stocks[k], params.from_date, today, nets[k])
       IN  SectorLoop(stocks, k + 1, params, f.cache, today, nets,
                      [sector_data |-> IF f.ret.success
                                       THEN Append(acc.sector_data,
                                                   [symbol |-> stocks[k], data |-> f.ret.data])
                                       ELSE acc.sector_data,
                       trace |-> acc.trace \o f.trace])

_analyze_sector(params, cache, today, nets) ==
  IF "sector" \notin DOMAIN params THEN Done(Failure("'sector'"), cache, <<>>)
  ELSE LET loop == SectorLoop(_get_sector_stocks(params.sector), 1, params, cache, today, nets,
                              [sector_data |-> <<>>, trace |-> <<>>])
           trace == loop.trace \o <<Ev("compute", "_analyze_sector")>>
       IN  IF loop.raised THEN Done(Failure(loop.exc), loop.cache, loop.trace)
           ELSE IF ~ HasPeriod(params)
           THEN Done(Failure(PeriodKeyError(params).exc), loop.cache, trace)
           ELSE Done(Success([sector |-> params.sector, metrics |-> <<>>,
                              top_performers |-> <<>>, period |-> PeriodText(params)]),
                     loop.cache, trace)

\* a comparison that goes on when only the second fetch failed
_analyze_comparison_partial(params, cache, today, nets) ==
  LET f1 == FetchSymbol(params, "symbol1", cache, today, nets[1])
      f2 == FetchSymbol(params, "symbol2", f1.cache, today, nets[2])
      both == f1.trace \o f2.trace
  IN  IF f1.trace = <<>> THEN f1
      ELSE IF f2.trace = <<>> THEN Done(f2.ret, f2.cache, both)
      ELSE IF ~ f1.ret.success
      THEN Done(Failure("Failed to fetch comparison data"), f2.cache, both)
      ELSE Computed(Done(f2.ret, f2.cache, both),
                    IF ~ HasPeriod(params) THEN PeriodKeyError(params)
                    ELSE Return([comparison |-> <<>>, period |-> PeriodText(params)]),
                    "_analyze_comparison")

_analyze_comparison(params, cache, today, nets) ==
  LET f1 == FetchSymbol(params, "symbol1", cache, today, nets[1])
      f2 == FetchSymbol(params, "symbol2", f1.cache, today, nets[2])
      both == f1.trace \o f2.trace
  IN  IF f1.trace = <<>> THEN f1                                  \* KeyError before any fetch
      ELSE IF f2.trace = <<>> THEN Done(f2.ret, f2.cache, both)   \* KeyError: 'symbol2'
      ELSE IF ~ f1.ret.success \/ ~ f2.ret.success
      THEN Done(Failure("Failed to fetch comparison data"), f2.cache, both)
      ELSE Computed(Done(f2.ret, f2.cache, both),
                    IF ~ HasPeriod(params) THEN PeriodKeyError(params)
                    ELSE Return([comparison |-> <<>>, period |-> PeriodText(params)]),
                    "_analyze_comparison")

-----------------------------------------------------------------------------
(* AnalysisProcessor.process_analysis_request                              *)

\* the dict literal analysis_methods: query type and the attribute it names
analysis_methods ==
  << <<"historical", "_analyze_historical_data">>,
     <<"top_performers", "_analyze_top_performers">>,
     <<"trend_analysis", "_analyze_trend">>,
     <<"price_movement", "_analyze_price_movement">>,
     <<"market_sentiment", "_analyze_market_sentiment">>,
     <<"volume_analysis", "_analyze_volume">>,
     <<"sector_performance", "_analyze_sector">>,
     <<"comparison", "_analyze_comparison">>,
     <<"support_resistance", "_analyze_support_resistance">>,
     <<"moving_averages", "_analyze_moving_averages">>,
     <<"rsi_analysis", "_analyze_rsi">>,
     <<"stock_details", "_get_stock_details">> >>

\* calling the bound method
Invoke(method, params, cache, today, nets) ==
  CASE method = "_analyze_price_movement" -> _analyze_price_movement(params, cache, today, nets)
    [] method = "_analyze_market_sentiment" -> _analyze_market_sentiment(params, cache, today, nets)
    [] method = "_analyze_volume" -> _analyze_volume(params, cache, today, nets)
    [] method = "_analyze_sector" -> _analyze_sector(params, cache, today, nets)
    [] method = "_analyze_comparison" -> _analyze_comparison(params, cache, today, nets)
    [] method = "_analyze_support_resistance" -> _analyze_support_resistance(params, cache, today, nets)
    [] method = "_analyze_moving_averages" -> _analyze_moving_averages(params, cache, today, nets)
    [] method = "_analyze_rsi" -> _analyze_rsi(params, cache, today, nets)
    [] method = "_get_stock_details" -> _get_stock_details(params, cache, today, nets)

\* f"{value}"
Format(value) == IF value = None THEN "None" ELSE value

process_analysis_request(request, cache, today, nets) ==
  LET query_type == Get(request, "query_type", None)
      undefined == {k \in 1..Len(analysis_methods) :
                      analysis_methods[k][2] \notin AnalysisProcessorMethods}
      mapped == {k \in 1..Len(analysis_methods) : analysis_methods[k][1] = query_type}
  IN  IF undefined # {}
      THEN \* building the dict evaluates self.<name> for every entry, in order
           LET k == CHOOSE a \in undefined : \A b \in undefined : a <= b
           IN  Done(Failure(AttributeError("AnalysisProcessor", analysis_methods[k][2]).exc),
                    cache, <<>>)
      ELSE IF mapped # {}
      THEN IF "parameters" \notin DOMAIN request
           THEN Done(Failure("'parameters'"), cache, <<>>)
           ELSE LET method == analysis_methods[CHOOSE k \in mapped : TRUE][2]
                    h == Invoke(method, request.parameters, cache, today, nets)
                IN  Done(h.ret, h.cache, <<Ev("handler", method)>> \o h.trace)
      ELSE Done(Failure("Unsupported analysis type: " \o Format(query_type)), cache, <<>>)

-----------------------------------------------------------------------------
(* main.py: the message handler                                            *)

Sent(kind, text) == [kind |-> kind, text |-> text]

\* truth value of a list or dict
Empty(collection) == DOMAIN collection = {}

\* What main has done when it returns or raises: the messages sent, the
\* trace, the cache, the parsed request and the dispatcher's result (each
\* <<>> while there is none)
Handled(sent, trace, cache, prompt_result, result) ==
  [raised |-> FALSE, sent |-> sent, trace |-> trace, cache |-> cache,
   prompt_result |-> prompt_result, result |-> result]

\* main from `if not result['success']` on
Answer(d, prompt_result, parsed) ==
  Handled(<<Sent("processing", ""),
            IF ~ d.ret.success
            THEN Sent("error", Get(d.ret, "error", "Unknown error"))
            ELSE IF ~ Empty(Get(d.ret, "data", <<>>))
            THEN Sent("analysis", prompt_result.query_type)
            ELSE Sent("no_data", "")>>,
          parsed \o <<Ev("dispatch", prompt_result.query_type)>> \o d.trace,
          d.cache, <<prompt_result>>, <<d.ret>>)

\* main from `if not prompt_result.get('action')` on
Route(prompt_result, parsed, cache, today, nets) ==
  IF ~ Truthy(Get(prompt_result, "action", None))
  THEN Handled(<<Sent("not_understood", prompt_result.original_prompt)>>, parsed, cache,
               <<prompt_result>>, <<>>)
  ELSE IF /\ Empty(Get(prompt_result, "matches", <<>>))
          /\ Truthy(Get(prompt_result.parameters, "symbol", None))
  THEN Handled(<<Sent("not_found", prompt_result.parameters.symbol)>>, parsed, cache,
               <<prompt_result>>, <<>>)
  ELSE Answer(process_analysis_request(prompt_result, cache, today, nets),
              prompt_result, parsed)

\* the steps of process_prompt in main's trace
Parsed(text, call) ==
  <<Ev("process_prompt", text)>>
     \o [k \in 1..Len(call.searches) |-> Ev("search", call.searches[k])]

Parse(call, text, cache, today, nets) ==
  Route(call.result, Parsed(text, call), cache, today, nets)

\* The try body of main.  prompt_processor is <<>> while the global is None
\* and <<mapper>> once start() has built PromptProcessor(instrument_mapper).
MainBody(prompt_processor, cache, text, today, nets) ==
  IF prompt_processor = <<>>
  THEN [raised |-> TRUE, exc |-> "'NoneType' object has no attribute 'process_prompt'",
        sent |-> <<>>, trace |-> <<>>, cache |-> cache, prompt_result |-> <<>>, result |-> <<>>]
  ELSE Parse(ProcessPromptCall(prompt_processor[1], text, today), text, cache, today, nets)

\* the exception leaves main
Propagate(body) ==
  [escaped |-> body.raised, sent |-> body.sent, trace |-> body.trace, cache |-> body.cache,
   prompt_result |-> body.prompt_result, result |-> body.result]

\* except Exception as e: send "An error occurred: {e}"
Except(body) ==
  [escaped |-> FALSE,
   sent |-> IF body.raised THEN body.sent \o <<Sent("exception", body.exc)>> ELSE body.sent,
   trace |-> body.trace, cache |-> body.cache,
   prompt_result |-> body.prompt_result, result |-> body.result]

\* main without its except clause
Main_without_except(prompt_processor, cache, text, today, nets) ==
  Propagate(MainBody(prompt_processor, cache, text, today, nets))

\* main: the body inside try / except Exception
Main(prompt_processor, cache, text, today, nets) ==
  Except(MainBody(prompt_processor, cache, text, today, nets))

-----------------------------------------------------------------------------
(* utils.InstrumentMapper: the master data and the lookups                 *)
(* The mapper's fields are _instruments_cache (a list of record dicts) and *)
(* _last_cache_update (<<>> for None, <<datetime>> once set); the file     *)
(* instrument_cache.json is <<>> while absent, else <<content>>.           *)

\* a decoded JSON value, by its Python type
JsonDict(fields) == [type |-> "dict", fields |-> fields]
JsonList(items) == [type |-> "list", items |-> items]
JsonStr(s) == [type |-> "str", value |-> s]

\* f"{value}"
Format_(value) == IF value = None THEN "None" ELSE value

\* the dict _process_master_data builds of one record of the master file
processed_instrument(instrument) ==
  [instrument_key |-> Format_(Get(instrument, "exchange", None)) \o "-"
                        \o Format_(Get(instrument, "symbol", None)),
   exchange |-> Get(instrument, "exchange", None),
   trading_symbol |-> Get(instrument, "symbol", None),
   name |-> Get(instrument, "name", None),
   instrument_type |-> Get(instrument, "type", None),
   short_name |-> Get(instrument, "symbol", None),
   isin |-> Get(instrument, "isin", None),
   lot_size |-> Get(instrument, "lot_size", None),
   tick_size |-> Get(instrument, "tick_size", None),
   strike |-> Get(instrument, "strike", None),
   expiry |-> Get(instrument, "expiry", None),
   token |-> Get(instrument, "token", None)]

\* what `for instrument in raw_data` iterates over: the items of a list, the
\* keys of a dict
Iterated(raw_data) ==
  IF raw_data.type = "list" THEN raw_data.items
  ELSE IF DOMAIN raw_data.fields = {} THEN <<>>
  ELSE <<JsonStr(CHOOSE k \in DOMAIN raw_data.fields : TRUE)>>

\* _process_master_data: a record that is no dict has no .get; the handler of
\* the per-record try calls .get again while logging, so the AttributeError
\* leaves the function
_process_master_data(raw_data) ==
  IF raw_data.type \notin {"list", "dict"}
  THEN Raise("'" \o raw_data.type \o "' object is not iterable")
  ELSE LET items == Iterated(raw_data)
           bad == {k \in 1..Len(items) : items[k].type # "dict"}
       IN  IF bad # {}
           THEN AttributeError(items[CHOOSE k \in bad : \A j \in bad : k <= j].type, "get")
           ELSE Return([k \in 1..Len(items) |-> processed_instrument(items[k].fields)])

\* the mapper's two fields and the cache file, and what a call returned
Mapper(instruments, last_update, file, ret) ==
  [_instruments_cache |-> instruments, _last_cache_update |-> last_update,
   cache_file |-> file, ret |-> ret]

\* _save_cache: its own try; disk is "ok", "open_fails" (the file is left as
\* it was) or "write_fails" (the file was truncated by open and is not JSON)
_save_cache(instruments, last_update, file, disk) ==
  IF last_update = <<>> THEN file                         \* None.isoformat(), caught
  ELSE IF disk = "open_fails" THEN file
  ELSE IF disk = "write_fails" THEN <<[corrupt |-> TRUE]>>
  ELSE <<[last_update |-> last_update[1], instruments |-> instruments]>>

\* refresh_master_data that stores what it could before it fails
refresh_master_data_partial(instruments, last_update, file, today, response, disk) ==
  IF ~ response.answered \/ response.status_code # 200
  THEN Mapper(instruments, last_update, file, FALSE)
  ELSE Mapper(<<>>, <<today>>, file,
              response.content = "json" /\ ~ _process_master_data(response.data).raised)

\* refresh_master_data: response is what requests.get, gunzip and json.loads
\* make of the master URL -- answered is FALSE when requests.get raises,
\* content is "not_gzip", "not_json" or "json" with the decoded data
refresh_master_data(instruments, last_update, file, today, response, disk) ==
  IF ~ response.answered THEN Mapper(instruments, last_update, file, FALSE)
  ELSE IF response.status_code # 200 THEN Mapper(instruments, last_update, file, FALSE)
  ELSE IF response.content # "json" THEN Mapper(instruments, last_update, file, FALSE)
  ELSE LET processed == _process_master_data(response.data)
       IN  IF processed.raised THEN Mapper(instruments, last_update, file, FALSE)
           ELSE Mapper(processed.value, <<today>>,
                       _save_cache(processed.value, <<today>>, file, disk), TRUE)

\* self.cache_duration = timedelta(days=1), in seconds
cache_duration == 86400

\* _load_cache: the file's instruments while it is younger than a day
_load_cache(instruments, last_update, file, today) ==
  IF file = <<>> THEN Mapper(instruments, last_update, file, FALSE)
  ELSE IF "last_update" \notin DOMAIN file[1]                  \* not JSON, or KeyError
  THEN Mapper(instruments, last_update, file, FALSE)
  ELSE IF SecondsBetween(today, file[1].last_update) > cache_duration
  THEN Mapper(instruments, last_update, file, FALSE)
  ELSE IF "instruments" \notin DOMAIN file[1]
  THEN Mapper(instruments, last_update, file, FALSE)
  ELSE Mapper(file[1].instruments, <<file[1].last_update>>, file, TRUE)

\* initialize: the cache file if valid, else the master URL
initialize(instruments, last_update, file, today, response, disk) ==
  IF _load_cache(instruments, last_update, file, today).ret
  THEN _load_cache(instruments, last_update, file, today)
  ELSE refresh_master_data(instruments, last_update, file, today, response, disk)

\* fuzz.partial_ratio(query, name) for the names of the model's master files
\* and the queries made, in the order of ScoredNames
ScoredNames == <<"INFOSYS LIMITED", "TATA CONSULTANCY SERVICES", "HDFC BANK LIMITED">>
PartialRatios ==
     "INFY" :> <<75, 25, 25>> @@
     "INFY NSE" :> <<62, 62, 29>> @@
     "INFOSYS" :> <<100, 36, 15>> @@
     "INE009A01021" :> <<25, 25, 25>> @@
     "TCS EQ" :> <<33, 50, 44>> @@
     "ZZZ" :> <<0, 0, 0>>

\* fuzz.partial_ratio: 100 for equal strings, 0 when one is empty
partial_ratio(s1, s2) ==
  IF s1 = s2 THEN 100
  ELSE IF Len(s1) = 0 \/ Len(s2) = 0 THEN 0
  ELSE PartialRatios[s1][CHOOSE k \in 1..Len(ScoredNames) : ScoredNames[k] = s2]

\* query.split(): the words between runs of whitespace
RECURSIVE Split(_)
Split(s) ==
  LET t == LStrip(s)
      ends == {i \in 1..Len(t) : IsSpace(CharAt(t, i))}
      stop == IF ends = {} THEN Len(t) + 1 ELSE CHOOSE i \in ends : \A j \in ends : i <= j
  IN  IF Len(t) = 0 THEN <<>>
      ELSE <<SubSeq(t, 1, stop - 1)>> \o Split(SubSeq(t, stop, Len(t)))

InParts(word, parts) == \E k \in 1..Len(parts) : parts[k] = word

instrument_types == [EQ |-> "EQUITY", FUT |-> "FUTURES", OPT |-> "OPTIONS", IDX |-> "INDEX"]

\* the score smart_search gives one instrument, doubled: the name similarity
\* counts half, so twice the score is a whole number
TwiceScore(query, parts, instrument) ==
  LET trading_symbol == Get(instrument, "trading_symbol", None)
      short_name == Get(instrument, "short_name", None)
      typed == {t \in DOMAIN instrument_types :
                  /\ InParts(t, parts) \/ InParts(instrument_types[t], parts)
                  /\ Get(instrument, "instrument_type", None) \in {t, instrument_types[t]}}
      listed == {e \in {"NSE", "BSE"} :
                   InParts(e, parts) /\ Get(instrument, "exchange", None) = e}
  IN  2 * (IF trading_symbol = query THEN 100
           ELSE IF InParts(trading_symbol, parts) THEN 80 ELSE 0)
      + partial_ratio(query, StrUpper(Get(instrument, "name", "")))
      + 2 * (IF short_name = query THEN 90
             ELSE IF InParts(short_name, parts) THEN 70 ELSE 0)
      + 2 * (IF Len(query) = 12 /\ SubSeq(query, 1, 2) = "IN"
                /\ Get(instrument, "isin", None) = query THEN 100 ELSE 0)
      + 2 * 50 * Cardinality(typed)
      + 2 * 50 * Cardinality(listed)

_format_instrument_display(instrument) ==
  "Symbol: " \o Format_(Get(instrument, "trading_symbol", None))
    \o " | Name: " \o Format_(Get(instrument, "name", None))
    \o " | Type: " \o Format_(Get(instrument, "instrument_type", None))
    \o " | Exchange: " \o Format_(Get(instrument, "exchange", None))

\* matches left in the order they were appended
SortByScore_unsorted(matches) == matches

\* matches.sort(key=score, reverse=True): stable, so an entry goes after the
\* entries whose score is not lower
RECURSIVE SortByScore(_)
SortByScore(matches) ==
  IF Len(matches) <= 1 THEN matches
  ELSE LET front == SortByScore(SubSeq(matches, 1, Len(matches) - 1))
           entry == matches[Len(matches)]
           before == {k \in 1..Len(front) : front[k].score >= entry.score}
           n == Cardinality(before)
       IN  SubSeq(front, 1, n) \o <<entry>> \o SubSeq(front, n + 1, Len(front))

\* matches[:limit]
Slice(seq, limit) ==
  IF limit >= 0 THEN SubSeq(seq, 1, IF limit < Len(seq) THEN limit ELSE Len(seq))
  ELSE SubSeq(seq, 1, IF Len(seq) + limit > 0 THEN Len(seq) + limit ELSE 0)

\* smart_search(query, limit): no try; a record whose name is None has no
\* .upper().  The score of an entry is kept doubled.
smart_search(instruments, query0, limit) ==
  LET query == Strip(StrUpper(query0))
      parts == Split(query)
      unnamed == {k \in 1..Len(instruments) : Get(instruments[k], "name", "") = None}
      kept == SelectSeq(instruments, LAMBDA ins : TwiceScore(query, parts, ins) > 2 * 50)
      matches == [k \in 1..Len(kept) |->
                    [instrument |-> kept[k], score |-> TwiceScore(query, parts, kept[k]),
                     display_text |-> _format_instrument_display(kept[k])]]
  IN  IF unnamed # {} THEN AttributeError("NoneType", "upper")
      ELSE Return(Slice(SortByScore(matches), limit))

\* get_instrument_by_token / get_instrument_by_isin: the first record with
\* the value under the key, <<>> for None
FirstWith(instruments, key, value) ==
  LET hits == {k \in 1..Len(instruments) : Get(instruments[k], key, None) = value}
  IN  IF hits = {} THEN <<>> ELSE <<instruments[CHOOSE k \in hits : \A j \in hits : k <= j]>>

get_instrument_by_token(instruments, token) == Return(FirstWith(instruments, "token", token))

get_instrument_by_isin(instruments, isin) == Return(FirstWith(instruments, "isin", isin))

-----------------------------------------------------------------------------
(* market.InstrumentMapper: the DataFrame of instruments and its lookups   *)
(* A frame is its columns and its rows; a value a row lacks is None (NaN). *)

EmptyFrame == [columns |-> {}, rows |-> <<>>]

\* pd.DataFrame(data) of the decoded master file
InstrumentFrame(data) ==
  IF data.type = "list"
  THEN IF \A k \in 1..Len(data.items) : data.items[k].type = "dict"
       THEN LET columns == UNION {DOMAIN data.items[k].fields : k \in 1..Len(data.items)}
            IN  Return([columns |-> columns,
                        rows |-> [k \in 1..Len(data.items) |->
                                    [c \in columns |-> Get(data.items[k].fields, c, None)]]])
       ELSE Return([columns |-> {"0"},
                    rows |-> [k \in 1..Len(data.items) |-> [c \in {"0"} |-> data.items[k].type]]])
  ELSE IF data.type = "dict" /\ DOMAIN data.fields = {} THEN Return(EmptyFrame)
  ELSE IF data.type = "dict"
  THEN Raise("If using all scalar values, you must pass an index")
  ELSE Raise("DataFrame constructor not properly called!")

\* df.empty
FrameEmpty(df) == df.columns = {} \/ Len(df.rows) = 0

\* _load_instrument_data: the frame of the master file, an empty frame on any
\* exception
_load_instrument_data(response) ==
  IF ~ response.answered THEN EmptyFrame
  ELSE IF response.status_code # 200 THEN EmptyFrame                \* raise_for_status
  ELSE IF response.content # "json" THEN EmptyFrame
  ELSE IF InstrumentFrame(response.data).raised THEN EmptyFrame
  ELSE InstrumentFrame(response.data).value

\* series.str.upper() / series.str.strip().str.upper() of one value: NaN stays NaN
UpperOf(value) == IF value = None THEN None ELSE StrUpper(value)
StripUpperOf(value) == IF value = None THEN None ELSE StrUpper(Strip(value))

\* filtered_df.iloc[0]: the first of the rows that pass the filter, 0 when
\* filtered_df is empty
FirstRow(hits) == IF hits = {} THEN 0 ELSE CHOOSE k \in hits : \A j \in hits : k <= j

\* search_by_trading_symbol: the key f"{segment}|{isin}" of the first row
\* whose upper-cased segment and stripped, upper-cased trading symbol equal
\* the arguments'; None without data, without a match, or on any exception
search_by_trading_symbol(df, segment, trading_symbol) ==
  LET found == FirstRow({k \in 1..Len(df.rows) :
                           /\ UpperOf(df.rows[k].segment) = StrUpper(segment)
                           /\ StripUpperOf(df.rows[k].trading_symbol)
                                = StrUpper(Strip(trading_symbol))})
  IN  IF FrameEmpty(df) THEN Return(None)
      ELSE IF ~ {"segment", "trading_symbol"} \subseteq df.columns THEN Return(None)  \* KeyError, caught
      ELSE IF found = 0 THEN Return(None)
      ELSE IF "isin" \notin df.columns THEN Return(None)                              \* KeyError, caught
      ELSE Return(Format_(df.rows[found].segment) \o "|" \o Format_(df.rows[found].isin))

\* instrument_key.split('|')
RECURSIVE SplitBar(_)
SplitBar(s) ==
  LET bars == {i \in 1..Len(s) : CharAt(s, i) = "|"}
      first == CHOOSE i \in bars : \A j \in bars : i <= j
  IN  IF bars = {} THEN <<s>>
      ELSE <<SubSeq(s, 1, first - 1)>> \o SplitBar(SubSeq(s, first + 1, Len(s)))

\* the lookup without its `if self.df.empty` guard
get_instrument_details_unguarded(df, instrument_key) ==
  LET parts == SplitBar(instrument_key)
      found == FirstRow({k \in 1..Len(df.rows) :
                           df.rows[k].segment = parts[1] /\ df.rows[k].isin = parts[2]})
  IN  IF Len(parts) < 2
      THEN Raise("not enough values to unpack (expected 2, got 1)")
      ELSE IF Len(parts) > 2 THEN Raise("too many values to unpack (expected 2)")
      ELSE IF "segment" \notin df.columns THEN KeyError("segment")
      ELSE IF "isin" \notin df.columns THEN KeyError("isin")
      ELSE IF found = 0 THEN Return(<<>>)
      ELSE Return(<<df.rows[found]>>)

\* get_instrument_details: nothing is caught; <<>> is None, <<row>> the
\* first row with that very segment and isin
get_instrument_details(df, instrument_key) ==
  LET parts == SplitBar(instrument_key)
      found == FirstRow({k \in 1..Len(df.rows) :
                           df.rows[k].segment = parts[1] /\ df.rows[k].isin = parts[2]})
  IN  IF FrameEmpty(df) THEN Return(<<>>)
      ELSE IF Len(parts) < 2
      THEN Raise("not enough values to unpack (expected 2, got 1)")
      ELSE IF Len(parts) > 2 THEN Raise("too many values to unpack (expected 2)")
      ELSE IF "segment" \notin df.columns THEN KeyError("segment")
      ELSE IF "isin" \notin df.columns THEN KeyError("isin")
      ELSE IF found = 0 THEN Return(<<>>)
      ELSE Return(<<df.rows[found]>>)

-----------------------------------------------------------------------------
(* auth.Authenticator and auth.LocalServer                                 *)
(* The callback route runs in the server's threads, authenticate() in the  *)
(* event loop; they share LocalServer.auth_code.                           *)

\* request.args.get('code') of a /callback request: None without the
\* parameter, '' for `code=`, else the code
CallbackCodes == {None, "", "abc", "xyz"}

\* what the token URL answers: requests.post raises, or a status with a body
\* that is JSON or is not
TokenResponse(kind, status_code, data) ==
  [kind |-> kind, status_code |-> status_code, data |-> data]
TokenResponses ==
  { TokenResponse("raises", 0, <<>>),
    TokenResponse("json", 401, [status |-> "error"]),
    TokenResponse("json", 200, [access_token |-> "tok"]),
    TokenResponse("json", 200, [access_token |-> ""]),
    TokenResponse("json", 200, [status |-> "success"]),
    TokenResponse("not_json", 200, <<>>) }

\* fetch_access_token(auth_code): the value returned and access_token
\* afterwards.  When requests.post raises, the except clause reads the
\* unbound `response` and raises itself.
fetch_access_token(token, code, response) ==
  IF response.kind = "raises"
  THEN [raised |-> TRUE, value |-> FALSE, access_token |-> token]
  ELSE IF response.status_code # 200
  THEN [raised |-> FALSE, value |-> FALSE, access_token |-> token]
  ELSE IF response.kind # "json"
  THEN [raised |-> FALSE, value |-> FALSE, access_token |-> token]
  ELSE [raised |-> FALSE, value |-> Truthy(Get(response.data, "access_token", None)),
        access_token |-> Get(response.data, "access_token", None)]

\* for _ in range(120) counting one iteration too many
range_121 == 120 + 1

\* for _ in range(120)
range_120 == 120

-----------------------------------------------------------------------------
(* State                                                                   *)

VARIABLES
  now,               \* datetime.now()
  prompt_processor,  \* main.py's global: <<>> for None, <<mapper>> once built
  cache,             \* StockProcessor._cache
  hist_cache,        \* HistoricalDataFetcher._cache
  last,              \* the last call made and what it returned and did
  _instruments_cache,  \* utils.InstrumentMapper._instruments_cache
  _last_cache_update,  \* utils.InstrumentMapper._last_cache_update: <<>> for None
  cache_file,          \* instrument_cache.json: <<>> while absent
  df,                  \* market.InstrumentMapper.df
  auth_code,           \* LocalServer.auth_code
  server_thread,       \* LocalServer.server_thread: FALSE for None
  access_token,        \* Authenticator.access_token
  pc,                  \* where the coroutine authenticate() stands
  polls,               \* iterations of its `for _ in range(120)` begun
  handed,              \* its local auth_code: <<>> until read, then <<value>>
  exchanges,           \* the token requests posted, with what they returned
  authenticated,             \* what authenticate() returned: <<>> until it has
  callback,            \* the /callback request being served: <<>> for none
  delivered            \* the codes the /callback requests carried so far

\* the two instrument mappers
directory == <<_instruments_cache, _last_cache_update, cache_file, df>>

\* the Authenticator, its LocalServer and the call of authenticate()
login == <<auth_code, server_thread, access_token, pc, polls, handed, exchanges, authenticated,
           callback, delivered>>

vars == <<now, prompt_processor, cache, hist_cache, last, directory, login>>

Init ==
  /\ now = [d |-> StartDay, s |-> StartSecond]
  /\ prompt_processor = <<>>
  /\ cache = <<>>
  /\ hist_cache = <<>>
  /\ last = [op |-> "none"]
  /\ _instruments_cache = <<>>
  /\ _last_cache_update = <<>>
  /\ cache_file = <<>>
  /\ df = EmptyFrame
  /\ auth_code = None
  /\ server_thread = FALSE
  /\ access_token = None
  /\ pc = "idle"
  /\ polls = 0
  /\ handed = <<>>
  /\ exchanges = <<>>
  /\ authenticated = <<>>
  /\ callback = <<>>
  /\ delivered = {}

Tick ==
  /\ now.s < StartSecond + MaxTicks * TickSeconds
  /\ now' = [now EXCEPT !.s = @ + TickSeconds]
  /\ UNCHANGED <<prompt_processor, cache, hist_cache, last, directory, login>>

\* prompt_processor.process_prompt(text) on a processor built over mapper
ProcessPrompt(mapper, text) ==
  /\ last' = [op |-> "process_prompt", mapper |-> mapper, prompt |-> text, today |-> now,
              call |-> ProcessPromptCall(mapper, text, now)]
  /\ UNCHANGED <<now, prompt_processor, cache, hist_cache, directory, login>>

CalculateDateRange(duration, unit) ==
  /\ last' = [op |-> "_calculate_date_range", duration |-> duration, unit |-> unit,
              today |-> now, ret |-> _calculate_date_range(duration, unit, now)]
  /\ UNCHANGED <<now, prompt_processor, cache, hist_cache, directory, login>>

Durations == {0, 1, 5, 30, 200}
Units == {"day", "week", "month", "year", "Day", "WEEK", "Months", "hour"}

PromptNext ==
  \/ \E mapper \in Mappers, text \in Texts : ProcessPrompt(mapper, text)
  \/ \E duration \in Durations, unit \in Units : CalculateDateRange(duration, unit)

PromptSpec == Init /\ [][PromptNext]_vars

\* ---- the program: start() on chat start, main() on every message ----

\* start(): authentication fails and it returns; or a constructor raises
\* after instrument_mapper and historical_data were assigned (GrokAnalyzer
\* loads its model in __init__) and the except reports it; or every
\* component is built over the master data that initialize() loaded
StartOutcomes == {"auth_failed", "init_error", "ready"}
MasterData == {LoadedMaster, <<>>}

Start(outcome, instruments) ==
  /\ prompt_processor' = IF outcome = "ready" THEN <<UtilsMapper(instruments)>>
                         ELSE prompt_processor
  /\ cache' = IF outcome = "ready" THEN <<>> ELSE cache
  /\ hist_cache' = IF outcome = "auth_failed" THEN hist_cache ELSE <<>>
  /\ last' = [op |-> "start", outcome |-> outcome,
              sent |-> <<Sent("initializing", ""),
                         CASE outcome = "auth_failed" -> Sent("auth_failed", "")
                           [] outcome = "init_error" -> Sent("init_error", "")
                           [] outcome = "ready" -> Sent("ready", "")>>]
  /\ UNCHANGED <<now, directory, login>>

\* main(message): what the call leaves behind
Deliver(text, m) ==
  /\ cache' = m.cache
  /\ last' = [op |-> "main", text |-> text, constructed |-> prompt_processor # <<>>,
              escaped |-> m.escaped, sent |-> m.sent, trace |-> m.trace,
              prompt_result |-> m.prompt_result, result |-> m.result]
  /\ UNCHANGED <<now, prompt_processor, hist_cache, directory, login>>

OnMessage(text, nets) == Deliver(text, Main(prompt_processor, cache, text, now, nets))

Next ==
  \/ \E outcome \in StartOutcomes, instruments \in MasterData : Start(outcome, instruments)
  \/ \E text \in Texts, nets \in MessageNets : OnMessage(text, nets)

Spec == Init /\ [][Next]_vars

\* ---- the analysis objects called directly ----
\* The StockProcessor and the HistoricalDataFetcher share no state, so the
\* calls on one are explored from the other's initial state.

\* requests as process_prompt produced them when the session started, over a
\* mapper that lists the directory
ParsedAt == [d |-> StartDay, s |-> StartSecond]
DispatchTexts ==
  {"Show 5 year data of TCS", "Get top 10 performing stocks in last 30 days",
   "Give me a trend analysis of TATA", "Analyze price movement of TCS in last 5 days",
   "What is market sentiment ", "Show volume data of TCS", "What is the IT sector performance",
   "Compare TCS and INFY and WIPRO", "Find support and resistance for SBI",
   "Show moving average for INFY", "Show rsi for INFY", "Get stock details of INFY",
   "Get dividend history of ITC", "Show news sentiment for Wipro", "asdkfj"}
ParsedRequests ==
  [text \in DispatchTexts |-> process_prompt(ListingMapper(Directory), text, ParsedAt)]

\* the parameters a caller passes who supplies every key the handler reads
FullPeriod == [from_date |-> DateMinusDays(ParsedAt, 30), duration |-> 30, unit |-> "day"]
Complete == [symbol |-> "INFY"] @@ FullPeriod
Pair == [symbol1 |-> "INFY", symbol2 |-> "TCS"] @@ FullPeriod
Sector == [sector |-> "IT"] @@ FullPeriod

HandlerNames ==
  {"_analyze_price_movement", "_analyze_market_sentiment", "_analyze_volume",
   "_analyze_sector", "_analyze_comparison", "_analyze_support_resistance",
   "_analyze_moving_averages", "_analyze_rsi", "_get_stock_details"}

\* the parsed request of the handler's query type, where its fetch stays
\* within the symbols above
ParsedFor(method) ==
  CASE method = "_analyze_volume" -> {ParsedRequests["Show volume data of TCS"].parameters}
    [] method = "_analyze_sector" -> {ParsedRequests["What is the IT sector performance"].parameters}
    [] method = "_analyze_comparison" -> {ParsedRequests["Compare TCS and INFY and WIPRO"].parameters}
    [] method = "_analyze_support_resistance" -> {ParsedRequests["Find support and resistance for SBI"].parameters}
    [] method = "_analyze_rsi" -> {ParsedRequests["Show rsi for INFY"].parameters}
    [] method = "_get_stock_details" -> {ParsedRequests["Get stock details of INFY"].parameters}
    [] OTHER -> {}

HandlerArguments(method) ==
  ParsedFor(method) \cup
    (CASE method = "_analyze_comparison" -> {Pair}
       [] method = "_analyze_sector" -> {Sector}
       [] OTHER -> {Complete})

\* await analysis_processor.<method>(params)
CallHandler(method, params, nets) ==
  LET h == Invoke(method, params, cache, now, nets)
  IN  /\ hist_cache = <<>>
      /\ cache' = h.cache
      /\ last' = [op |-> "handler", method |-> method, params |-> params, today |-> now,
                  ret |-> h.ret, trace |-> h.trace]
      /\ UNCHANGED <<now, prompt_processor, hist_cache, directory, login>>

\* await analysis_processor.process_analysis_request(request)
Dispatch(request, nets) ==
  LET d == process_analysis_request(request, cache, now, nets)
  IN  /\ hist_cache = <<>>
      /\ cache' = d.cache
      /\ last' = [op |-> "process_analysis_request", request |-> request, today |-> now,
                  ret |-> d.ret, trace |-> d.trace]
      /\ UNCHANGED <<now, prompt_processor, hist_cache, directory, login>>

\* await stock_processor.get_stock_data(symbol, from_date)
GetStockData(symbol, net) ==
  LET f == get_stock_data(cache, symbol, FullPeriod.from_date, now, net)
  IN  /\ hist_cache = <<>>
      /\ cache' = f.cache
      /\ last' = [op |-> "get_stock_data", symbol |-> symbol, today |-> now,
                  ret |-> f.ret, trace |-> f.trace]
      /\ UNCHANGED <<now, prompt_processor, hist_cache, directory, login>>

\* the lists of symbols passed to get_multiple_stocks_data
SymbolLists == {<<>>, <<"INFY", "TCS">>, <<"INFY", "INFY">>}

\* await stock_processor.get_multiple_stocks_data(symbols, from_date)
GetMultipleStocksData(symbols, nets) ==
  LET g == get_multiple_stocks_data(cache, symbols, FullPeriod.from_date, now, nets)
  IN  /\ hist_cache = <<>>
      /\ cache' = g.cache
      /\ last' = [op |-> "get_multiple_stocks_data", symbols |-> symbols, today |-> now,
                  ret |-> g.ret, trace |-> g.trace]
      /\ UNCHANGED <<now, prompt_processor, hist_cache, directory, login>>

\* a series that turns four times, and the windows passed with it
ZigZag ==
  [format |-> "records",
   bars |-> <<Bar(100, 110, 95, 105, 1000), Bar(105, 120, 100, 118, 1500),
              Bar(118, 115, 90, 95, 1200), Bar(95, 130, 105, 125, 900),
              Bar(125, 125, 98, 100, 1100)>>]
Series == {ZigZag, Rising, OneBar, Candles}
Windows == {20, 3, 2}

\* stock_processor.find_support_resistance(data, window)
FindSupportResistance(series, window) ==
  /\ cache = <<>>
  /\ hist_cache = <<>>
  /\ last' = [op |-> "find_support_resistance", series |-> series, window |-> window,
              ret |-> find_support_resistance(DataFrame(series), window)]
  /\ UNCHANGED <<now, prompt_processor, cache, hist_cache, directory, login>>

\* a mapper that has get_instrument_by_symbol, over the directory
LookupMapper(instruments) ==
  [methods |-> {"get_instrument_by_symbol", "get_all_instruments"}, instruments |-> instruments]
HistMappers == {UtilsMapper(LoadedMaster), LookupMapper(Directory)}
HistSymbols == {"INFY", "WIPRO", "ITC"}

\* await historical_data.get_historical_data(symbol, from_date)
GetHistoricalData(mapper, symbol, net) ==
  LET f == get_historical_data(hist_cache, mapper, symbol, FullPeriod.from_date, now, net)
  IN  /\ cache = <<>>
      /\ hist_cache' = f.cache
      /\ last' = [op |-> "get_historical_data", mapper |-> mapper, symbol |-> symbol,
                  today |-> now, ret |-> f.ret, trace |-> f.trace]
      /\ UNCHANGED <<now, prompt_processor, cache, directory, login>>

AnalysisNext ==
  \/ Tick
  \/ \E method \in HandlerNames :
       \E params \in HandlerArguments(method), nets \in HandlerNets :
          CallHandler(method, params, nets)
  \/ \E text \in DispatchTexts, nets \in MessageNets : Dispatch(ParsedRequests[text], nets)
  \/ \E net \in StockNets : GetStockData("INFY", net)
  \/ \E symbols \in SymbolLists, nets \in HandlerNets : GetMultipleStocksData(symbols, nets)
  \/ \E series \in Series, window \in Windows : FindSupportResistance(series, window)
  \/ \E mapper \in HistMappers, symbol \in HistSymbols, net \in HistNets :
       GetHistoricalData(mapper, symbol, net)

AnalysisSpec == Init /\ [][AnalysisNext]_vars

\* ---- the instrument mappers called directly ----
\* The two mappers share no state, so the calls on one are explored from the
\* other's initial state.

\* one record of the master file
RawRecord(exchange, symbol, name, isin, token) ==
  JsonDict([exchange |-> exchange, symbol |-> symbol, name |-> name, type |-> "EQ",
            isin |-> isin, token |-> token])

\* decoded master files: three records, one record, a list whose second entry
\* is no record, a JSON object, an empty list
MasterPayload ==
  JsonList(<< RawRecord("NSE", "INFY", "Infosys Limited", "INE009A01021", "1594"),
              RawRecord("BSE", "INFY", "Infosys Limited", "INE009A01021", "500209"),
              RawRecord("NSE", "TCS", "Tata Consultancy Services", "INE467B01029", "2953") >>)
SmallPayload ==
  JsonList(<< RawRecord("NSE", "HDFCBANK", "HDFC Bank Limited", "INE040A01034", "1333") >>)
MalformedPayload ==
  JsonList(<< RawRecord("NSE", "INFY", "Infosys Limited", "INE009A01021", "1594"),
              JsonStr("NSE") >>)
ObjectPayload == JsonDict([message |-> "rate limited"])
EmptyPayload == JsonList(<<>>)

\* what the master URL answers
Response(status_code, content, data) ==
  [answered |-> TRUE, status_code |-> status_code, content |-> content, data |-> data]
NoAnswer == [answered |-> FALSE, status_code |-> 0, content |-> "", data |-> EmptyPayload]
Ok(data) == Response(200, "json", data)

MasterResponses ==
  { NoAnswer, Response(404, "", EmptyPayload), Response(200, "not_gzip", EmptyPayload),
    Response(200, "not_json", EmptyPayload), Ok(MasterPayload), Ok(SmallPayload),
    Ok(MalformedPayload), Ok(ObjectPayload), Ok(EmptyPayload) }

Disks == {"ok", "open_fails", "write_fails"}

UtilsFresh == _instruments_cache = <<>> /\ _last_cache_update = <<>> /\ cache_file = <<>>

\* InstrumentMapper(access_token): a new mapper; the cache file stays
NewMapper ==
  /\ df = EmptyFrame
  /\ _instruments_cache' = <<>>
  /\ _last_cache_update' = <<>>
  /\ last' = [op |-> "InstrumentMapper"]
  /\ UNCHANGED <<now, prompt_processor, cache, hist_cache, cache_file, df, login>>

\* a cache file left by a run two days ago
LeftOverFile ==
  /\ df = EmptyFrame
  /\ cache_file = <<>>
  /\ cache_file' = <<[last_update |-> DateMinusDays(now, 2),
                      instruments |-> _process_master_data(SmallPayload).value]>>
  /\ last' = [op |-> "none"]
  /\ UNCHANGED <<now, prompt_processor, cache, hist_cache, _instruments_cache,
                 _last_cache_update, df, login>>

Loaded(op, m, response, disk) ==
  /\ df = EmptyFrame
  /\ _instruments_cache' = m._instruments_cache
  /\ _last_cache_update' = m._last_cache_update
  /\ cache_file' = m.cache_file
  /\ last' = [op |-> op, response |-> response, disk |-> disk, today |-> now, ret |-> m.ret]
  /\ UNCHANGED <<now, prompt_processor, cache, hist_cache, df, login>>

\* await instrument_mapper.refresh_master_data()
RefreshMasterData(response, disk) ==
  Loaded("refresh_master_data",
         refresh_master_data(_instruments_cache, _last_cache_update, cache_file, now,
                             response, disk),
         response, disk)

\* await instrument_mapper.initialize()
Initialize(response, disk) ==
  Loaded("initialize",
         initialize(_instruments_cache, _last_cache_update, cache_file, now, response, disk),
         response, disk)

Queries == {"INFY", "infy nse", "Infosys", "INE009A01021", "TCS EQ", "zzz", ""}
Limits == {5, 2, 1, 0}
Tokens == {"1594", "2953", "0"}
Isins == {"INE009A01021", "INE467B01029", ""}

\* a lookup of the utils mapper: it changes nothing
Looked(call) ==
  /\ df = EmptyFrame
  /\ last' = call
  /\ UNCHANGED <<now, prompt_processor, cache, hist_cache, directory, login>>

SmartSearch(query, limit) ==
  Looked([op |-> "smart_search", query |-> query, limit |-> limit,
          ret |-> smart_search(_instruments_cache, query, limit)])

GetInstrumentByToken(token) ==
  Looked([op |-> "get_instrument_by_token", token |-> token,
          ret |-> get_instrument_by_token(_instruments_cache, token)])

GetInstrumentByIsin(isin) ==
  Looked([op |-> "get_instrument_by_isin", isin |-> isin,
          ret |-> get_instrument_by_isin(_instruments_cache, isin)])

\* PromptProcessor(instrument_mapper).find_matching_instruments(query)
FindMatchingInstruments(query) ==
  Looked([op |-> "find_matching_instruments", query |-> query,
          ret |-> Return(find_matching_instruments(UtilsMapper(_instruments_cache), query))])

\* the market mapper's master file: rows of segment, trading symbol and isin
MarketRow(segment, trading_symbol, isin) ==
  JsonDict([segment |-> segment, trading_symbol |-> trading_symbol, isin |-> isin])

MarketPayload ==
  JsonList(<< MarketRow("NSE_EQ", "INFY", "INE009A01021"),
              MarketRow("BSE_EQ", " Infy ", "INE009A01021"),
              MarketRow("NSE_EQ", "infy", "INE000000000"),
              MarketRow("NSE_FO ", "TCS", "INE467B01029"),
              JsonDict([segment |-> "NSE_EQ", isin |-> "INE075A01022"]) >>)
UnkeyedPayload == JsonList(<< JsonDict([name |-> "Infosys Limited"]) >>)
StringsPayload == JsonList(<< JsonStr("NSE_EQ") >>)

MarketResponses ==
  { NoAnswer, Response(404, "", EmptyPayload), Response(200, "not_gzip", EmptyPayload),
    Response(200, "not_json", EmptyPayload), Ok(MarketPayload), Ok(UnkeyedPayload),
    Ok(StringsPayload), Ok(ObjectPayload), Ok(EmptyPayload) }

Segments == {"NSE_EQ", "nse_eq", " NSE_EQ", "BSE_EQ", "NSE_FO", "MCX_FO"}
TradingSymbols == {"INFY", " infy ", "TCS", "WIPRO"}
InstrumentKeys == {"NSE_EQ|INE009A01021", "BSE_EQ|INE009A01021", "NSE_EQ|INE467B01029",
                   "INE009A01021", "NSE_EQ|INE009A01021|1"}

\* market.InstrumentMapper(): the constructor loads the frame
NewMarketMapper(response) ==
  /\ UtilsFresh
  /\ df' = _load_instrument_data(response)
  /\ last' = [op |-> "market.InstrumentMapper", response |-> response]
  /\ UNCHANGED <<now, prompt_processor, cache, hist_cache, _instruments_cache,
                 _last_cache_update, cache_file, login>>

MarketLooked(call) ==
  /\ UtilsFresh
  /\ last' = call
  /\ UNCHANGED <<now, prompt_processor, cache, hist_cache, directory, login>>

SearchByTradingSymbol(segment, trading_symbol) ==
  MarketLooked([op |-> "search_by_trading_symbol", segment |-> segment,
                trading_symbol |-> trading_symbol,
                ret |-> search_by_trading_symbol(df, segment, trading_symbol)])

GetInstrumentDetails(instrument_key) ==
  MarketLooked([op |-> "get_instrument_details", instrument_key |-> instrument_key,
                ret |-> get_instrument_details(df, instrument_key)])

\* the clock of the mappers: only the stamp of the last update reads it
MaxDirectoryTicks == 1
DirectoryTick ==
  /\ now.s < StartSecond + MaxDirectoryTicks * TickSeconds
  /\ Tick

DirectoryNext ==
  \/ DirectoryTick
  \/ NewMapper
  \/ LeftOverFile
  \/ \E response \in MasterResponses, disk \in Disks : RefreshMasterData(response, disk)
  \/ \E response \in MasterResponses, disk \in Disks : Initialize(response, disk)
  \/ \E query \in Queries, limit \in Limits : SmartSearch(query, limit)
  \/ \E token \in Tokens : GetInstrumentByToken(token)
  \/ \E isin \in Isins : GetInstrumentByIsin(isin)
  \/ \E query \in Queries : FindMatchingInstruments(query)
  \/ \E response \in MarketResponses : NewMarketMapper(response)
  \/ \E segment \in Segments, trading_symbol \in TradingSymbols :
       SearchByTradingSymbol(segment, trading_symbol)
  \/ \E instrument_key \in InstrumentKeys : GetInstrumentDetails(instrument_key)

DirectorySpec == Init /\ [][DirectoryNext]_vars

\* ---- the login: authenticate() and the callback route ----

\* what the login leaves alone
session == <<now, prompt_processor, cache, hist_cache, last, directory>>

\* authenticate() up to the loop: the server thread is started, the browser
\* opened; an exception there is caught and False returned
Authenticate(browser) ==
  /\ pc = "idle"
  /\ server_thread' = TRUE
  /\ IF browser = "raises"
     THEN pc' = "done" /\ authenticated' = <<[ret |-> FALSE, by |-> "error"]>>
     ELSE pc' = "sleep" /\ authenticated' = authenticated
  /\ UNCHANGED <<auth_code, access_token, polls, handed, exchanges, callback, delivered>>
  /\ UNCHANGED session

\* one iteration: await asyncio.sleep(1), then `if self.local_server.get_auth_code()`;
\* after the 120th iteration without a code the loop ends and False is returned
Poll ==
  /\ pc = "sleep"
  /\ polls < range_120
  /\ polls' = polls + 1
  /\ IF Truthy(auth_code) THEN pc' = "seen" /\ authenticated' = authenticated
     ELSE IF polls' = range_120
     THEN pc' = "done" /\ authenticated' = <<[ret |-> FALSE, by |-> "timeout"]>>
     ELSE pc' = "sleep" /\ authenticated' = authenticated
  /\ UNCHANGED <<auth_code, server_thread, access_token, handed, exchanges, callback, delivered>>
  /\ UNCHANGED session

\* auth_code = self.local_server.get_auth_code(): the second read
ReadCode ==
  /\ pc = "seen"
  /\ handed' = <<auth_code>>
  /\ pc' = "exchange"
  /\ UNCHANGED <<auth_code, server_thread, access_token, polls, exchanges, authenticated, callback,
                 delivered>>
  /\ UNCHANGED session

\* return await self.fetch_access_token(auth_code)
FetchAccessToken(response) ==
  LET f == fetch_access_token(access_token, handed[1], response)
  IN  /\ pc = "exchange"
      /\ access_token' = f.access_token
      /\ exchanges' = Append(exchanges, [code |-> handed[1], response |-> response,
                                         ret |-> f.value])
      /\ authenticated' = <<[ret |-> f.value, by |-> "exchange"]>>
      /\ pc' = "done"
      /\ UNCHANGED <<auth_code, server_thread, polls, handed, callback, delivered>>
      /\ UNCHANGED session

\* GET /callback: self.auth_code = request.args.get('code')
CallbackStore(code) ==
  /\ server_thread
  /\ callback = <<>>
  /\ auth_code' = code
  /\ callback' = <<[code |-> code]>>
  /\ delivered' = IF Truthy(code) THEN delivered \cup {code} ELSE delivered
  /\ UNCHANGED <<server_thread, access_token, pc, polls, handed, exchanges, authenticated>>
  /\ UNCHANGED session

\* `if self.auth_code:` and the page returned
CallbackReply ==
  /\ callback # <<>>
  /\ callback' = <<>>
  /\ UNCHANGED <<auth_code, server_thread, access_token, pc, polls, handed, exchanges,
                 authenticated, delivered>>
  /\ UNCHANGED session

LoginNext ==
  \/ \E browser \in {"opened", "raises"} : Authenticate(browser)
  \/ Poll
  \/ ReadCode
  \/ \E response \in TokenResponses : FetchAccessToken(response)
  \/ \E code \in CallbackCodes : CallbackStore(code)
  \/ CallbackReply

LoginSpec == Init /\ [][LoginNext]_vars

-----------------------------------------------------------------------------
(* Properties                                                              *)

\* the first pattern of the table, in declared order, that matches the text
FirstMatching(text) ==
  LET hits == {k \in 1..Len(patterns) : PatternHits[text][k].found}
  IN  IF hits = {} THEN 0 ELSE CHOOSE k \in hits : \A j \in hits : k <= j

IntentOf(text) == IF FirstMatching(text) = 0 THEN None ELSE patterns[FirstMatching(text)].name

IsProcessPrompt == last.op = "process_prompt"

\* C1: for every text, the query_type process_prompt returns is the first
\* pattern, in the declared order, that matches the text (null when none does).
C1_FirstMatchWins ==
  IsProcessPrompt => Get(last.call.result, "query_type", None) = IntentOf(last.prompt)

\* the group of each pattern that captures the symbol, of the patterns whose
\* parameters carry a symbol
SymbolGroup(query_type) ==
  CASE query_type = "historical" -> 3
    [] query_type = "moving_averages" -> 2
    [] OTHER -> 1

CapturedSymbol(text) ==
  Strip(PatternHits[text][FirstMatching(text)].groups[SymbolGroup(IntentOf(text))])

HasSymbol(result) ==
  /\ "parameters" \in DOMAIN result
  /\ Truthy(Get(result.parameters, "symbol", None))

\* the mapper lists an instrument with this trading symbol and token
IsListed(mapper, symbol, token) ==
  \E k \in 1..Len(mapper.instruments) :
     /\ Get(mapper.instruments[k], "tradingsymbol", None) = symbol
     /\ Get(mapper.instruments[k], "instrument_token", None) = token

\* C3: with a symbol parameter present, exactly one candidate rewrites
\* parameters.symbol to that instrument's trading symbol and attaches its
\* token; zero or several candidates leave the symbol as extracted from the
\* text, attach no token, and the candidate list is handed to the caller.
C3_ResolveExactlyOne ==
  (IsProcessPrompt /\ HasSymbol(last.call.result)) =>
    LET result == last.call.result
        matches == result.matches
    IN  /\ last.call.searches = <<CapturedSymbol(last.prompt)>>
        /\ IF Len(matches) = 1
           THEN /\ result.parameters.symbol = matches[1].symbol
                /\ "instrument_token" \in DOMAIN result.parameters
                /\ result.parameters.instrument_token = matches[1].token
                /\ IsListed(last.mapper, matches[1].symbol, matches[1].token)
           ELSE /\ result.parameters.symbol = CapturedSymbol(last.prompt)
                /\ "instrument_token" \notin DOMAIN result.parameters

\* C3 witness: one candidate, and the symbol of the text was rewritten
C3_Witness_Rewritten ==
  /\ IsProcessPrompt
  /\ HasSymbol(last.call.result)
  /\ Len(last.call.result.matches) = 1
  /\ last.call.result.parameters.symbol # CapturedSymbol(last.prompt)
  /\ last.call.result.parameters.instrument_token # None

\* the unit table of the claim, with the spellings the inputs use
TableDays(unit) ==
  CASE unit \in {"day", "Day"} -> 1
    [] unit \in {"week", "WEEK"} -> 7
    [] unit \in {"month"} -> 30
    [] unit \in {"year"} -> 365
    [] OTHER -> 0

IsCalculateDateRange == last.op = "_calculate_date_range"

\* C10: for a non-negative duration and a unit of the table (in any case),
\* _calculate_date_range returns now minus duration x (1, 7, 30, 365 days),
\* so from_date <= now, with equality exactly when duration = 0.
C10_FromDateNotAfterNow ==
  (IsCalculateDateRange /\ last.duration >= 0 /\ TableDays(last.unit) > 0) =>
    /\ ~ last.ret.raised
    /\ last.ret.value = [d |-> last.today.d - last.duration * TableDays(last.unit),
                         s |-> last.today.s]
    /\ DateLE(last.ret.value, last.today)
    /\ (last.ret.value = last.today <=> last.duration = 0)

\* C10 witness: a month-based range strictly before now, unit in capitals
C10_Witness_Earlier ==
  /\ IsCalculateDateRange
  /\ last.unit \in {"month", "WEEK"}
  /\ last.duration > 0
  /\ ~ last.ret.raised
  /\ ~ DateLE(last.today, last.ret.value)

\* ---- the message pipeline ----

IsMain == last.op = "main"

\* positions of the trace where a step of the given kind was taken
Events(trace, ev) == {k \in 1..Len(trace) : trace[k].ev = ev}

\* main got a parsed request with an action
Understood ==
  /\ IsMain
  /\ last.prompt_result # <<>>
  /\ Truthy(Get(last.prompt_result[1], "action", None))

\* how many candidates the search returned for each symbol parameter
CandidateCounts(parsed) ==
  IF "symbol1" \in DOMAIN parsed.parameters
  THEN {Len(parsed.matches.symbol1), Len(parsed.matches.symbol2)}
  ELSE IF "symbol" \in DOMAIN parsed.parameters THEN {Len(parsed.matches)}
  ELSE {}

LastSent == last.sent[Len(last.sent)]

\* C2: when the candidate search for a symbol parameter of the request
\* returned zero or several instruments, main stops before the dispatcher
\* and before any fetch, and its last message is not-found or ambiguity.
C2_HaltsUnlessOneCandidate ==
  (Understood /\ \E n \in CandidateCounts(last.prompt_result[1]) : n # 1) =>
     /\ Events(last.trace, "dispatch") = {}
     /\ Events(last.trace, "get_stock_data") = {}
     /\ LastSent.kind \in {"not_found", "ambiguous"}

\* C4: a text no pattern matches is parsed to the null intent (action and
\* query_type None, no parameters, no candidates); main answers with the
\* could-not-understand message only, and neither searches the directory
\* nor dispatches nor fetches.
C4_NoMatchNotUnderstood ==
  (IsMain /\ last.constructed /\ FirstMatching(last.text) = 0) =>
     /\ last.prompt_result =
          <<[action |-> None, parameters |-> <<>>, matches |-> <<>>, query_type |-> None,
             original_prompt |-> last.text]>>
     /\ last.sent = <<Sent("not_understood", last.text)>>
     /\ last.result = <<>>
     /\ \A ev \in {"search", "dispatch", "handler", "get_stock_data", "GET"} :
          Events(last.trace, ev) = {}

C4_Witness_Gibberish ==
  /\ IsMain /\ last.constructed /\ last.text = "asdkfj"
  /\ LastSent.kind = "not_understood"

\* something went wrong while the message was handled
MessageFailed ==
  \/ ~ last.constructed
  \/ last.prompt_result # <<>> /\ "error" \in DOMAIN last.prompt_result[1]
  \/ last.result # <<>> /\ ~ last.result[1].success

\* C9: main lets no exception escape; when parsing, the search, the
\* dispatch, a fetch or a computation failed, or the processors were never
\* built, the last message is an error message and no analysis is sent.
C9_NoExceptionEscapes ==
  IsMain =>
     /\ ~ last.escaped
     /\ MessageFailed =>
          /\ LastSent.kind \in {"exception", "error", "not_understood"}
          /\ \A k \in 1..Len(last.sent) : last.sent[k].kind # "analysis"

C9_Witness_NotConstructed ==
  /\ IsMain /\ ~ last.constructed
  /\ last.sent = <<Sent("exception", "'NoneType' object has no attribute 'process_prompt'")>>

\* ---- the dispatcher and the handlers ----

IsDispatch == last.op = "process_analysis_request"
IsHandler == last.op = "handler"

MappedIntents == {analysis_methods[k][1] : k \in 1..Len(analysis_methods)}
MethodOf(query_type) ==
  analysis_methods[CHOOSE k \in 1..Len(analysis_methods) : analysis_methods[k][1] = query_type][2]

\* what the fetches of a call returned
Returned(trace) == {trace[k].arg : k \in Events(trace, "returned")}
FailedFetches(trace) == {r \in Returned(trace) : ~ r.success}

\* C5: dispatching a request process_prompt produced for a mapped intent,
\* or handing its parameters to the intent's handler, succeeds whenever
\* every fetch issued succeeded.
C5_ParsedRequestSucceeds ==
  /\ (IsDispatch /\ Get(last.request, "query_type", None) \in MappedIntents
        /\ FailedFetches(last.trace) = {}) => last.ret.success
  /\ (IsHandler /\ last.params \in ParsedFor(last.method)
        /\ FailedFetches(last.trace) = {}) => last.ret.success

\* C6: a query type outside the mapping is answered with
\* "Unsupported analysis type: <query_type>" and no handler and no fetch; a
\* mapped query type invokes exactly its handler.
C6_DispatchByQueryType ==
  IsDispatch =>
     LET query_type == Get(last.request, "query_type", None)
     IN  IF query_type \in MappedIntents
         THEN /\ Events(last.trace, "handler") = {1}
              /\ last.trace[1].arg = MethodOf(query_type)
         ELSE /\ last.ret = [success |-> FALSE,
                             error |-> "Unsupported analysis type: " \o Format(query_type)]
              /\ last.trace = <<>>

\* C7 as stated: every handler, comparison included, returns the failed
\* fetch's own result and computes nothing.
C7_FetchFailureVerbatim ==
  (IsHandler /\ FailedFetches(last.trace) # {}) =>
     /\ last.ret \in FailedFetches(last.trace)
     /\ Events(last.trace, "compute") = {}

\* C7: after a failed fetch no handler computes anything; a single-symbol
\* handler returns the failed fetch's own result, and the comparison
\* handler returns success false with "Failed to fetch comparison data".
C7_FetchFailureReported ==
  (IsHandler /\ FailedFetches(last.trace) # {}) =>
     /\ Events(last.trace, "compute") = {}
     /\ IF last.method = "_analyze_comparison"
        THEN last.ret = [success |-> FALSE, error |-> "Failed to fetch comparison data"]
        ELSE last.ret \in FailedFetches(last.trace)

C7_Witness_FailedFetch ==
  /\ IsHandler /\ last.method = "_analyze_rsi"
  /\ last.ret = [success |-> FALSE, error |-> "quote request failed"]
  /\ last.ret \in FailedFetches(last.trace)

\* C8: every value returned by the dispatcher, a handler, get_stock_data
\* or get_historical_data has a boolean success, and when success is false
\* it has an error string and no data.
WellFormed(ret) ==
  /\ "success" \in DOMAIN ret
  /\ ret.success \in BOOLEAN
  /\ ~ ret.success => "error" \in DOMAIN ret /\ "data" \notin DOMAIN ret

C8_ResultShape ==
  last.op \in {"process_analysis_request", "handler", "get_stock_data", "get_historical_data"}
     => WellFormed(last.ret)

C8_Witness_FailureWithoutData ==
  /\ last.op = "get_historical_data"
  /\ last.ret = [success |-> FALSE, error |-> "NaTType does not support strftime"]

\* ---- parameters of the parsed request ----

\* days in a unit word of the spec's table, whatever its case
UnitDays(unit) ==
  CASE StrLower(unit) = "day" -> 1
    [] StrLower(unit) = "week" -> 7
    [] StrLower(unit) = "month" -> 30
    [] StrLower(unit) = "year" -> 365
    [] OTHER -> 0

\* now minus a number of days, at the same time of day
DaysBefore(today, days) == [d |-> today.d - days, s |-> today.s]

HasParameters(result) == "parameters" \in DOMAIN result /\ result.parameters # <<>>

\* C11: every result of process_prompt whose parameters carry duration and
\* unit also carries from_date, equal to now minus the duration in that unit.
C11_DurationCarriesFromDate ==
  (/\ IsProcessPrompt
   /\ HasParameters(last.call.result)
   /\ {"duration", "unit"} \subseteq DOMAIN last.call.result.parameters) =>
    LET parameters == last.call.result.parameters
    IN  /\ "from_date" \in DOMAIN parameters
        /\ parameters.from_date =
             DaysBefore(last.today, parameters.duration * UnitDays(parameters.unit))

\* the "<N> day" period a moving-average text carries, None when it has none
ExplicitPeriod(text) == PatternHits[text][FirstMatching(text)].groups[1]

\* C12: a text classified as moving_averages with no explicit "<N> day" gets
\* period 50 and from_date = now - 50 days; with an explicit N it gets period N
\* and from_date = now - N days.
C12_MovingAveragePeriod ==
  (IsProcessPrompt /\ IntentOf(last.prompt) = "moving_averages") =>
    LET result == last.call.result
        N == IF ExplicitPeriod(last.prompt) \in {None, ""}
             THEN 50 ELSE DigitsValue(ExplicitPeriod(last.prompt))
    IN  /\ Get(result, "query_type", None) = "moving_averages"
        /\ result.parameters.period = N
        /\ result.parameters.from_date = DaysBefore(last.today, N)

\* C12 witness: a moving-average text without a period, parsed with the default
C12_Witness_DefaultPeriod ==
  /\ IsProcessPrompt
  /\ IntentOf(last.prompt) = "moving_averages"
  /\ ExplicitPeriod(last.prompt) = None
  /\ last.call.result.parameters.period = 50

\* C12 witness: a moving-average text with its own period
C12_Witness_ExplicitPeriod ==
  /\ IsProcessPrompt
  /\ IntentOf(last.prompt) = "moving_averages"
  /\ ExplicitPeriod(last.prompt) = "200"
  /\ last.call.result.parameters.period = 200

\* the groups of the historical and price_movement patterns that capture the
\* number, the unit word and the name
DurationGroups(query_type) ==
  IF query_type = "price_movement"
  THEN [duration |-> 2, unit |-> 3, symbol |-> 1]
  ELSE [duration |-> 1, unit |-> 2, symbol |-> 3]

Captured(text, field) ==
  PatternHits[text][FirstMatching(text)].groups[DurationGroups(IntentOf(text))[field]]

\* C13: a text matching the historical or the price_movement pattern comes
\* back with that intent and with duration = the captured number, unit = the
\* captured unit word, symbol = the captured name trimmed (or the one candidate
\* it resolves to) and from_date = now minus the duration in that unit; never
\* as an error or a null intent.
C13_DurationUnitSymbolParsed ==
  (IsProcessPrompt /\ IntentOf(last.prompt) \in {"historical", "price_movement"}) =>
    LET result == last.call.result
        text == last.prompt
        duration == DigitsValue(Captured(text, "duration"))
    IN  /\ "error" \notin DOMAIN result
        /\ Get(result, "query_type", None) = IntentOf(text)
        /\ HasParameters(result)
        /\ result.parameters.duration = duration
        /\ result.parameters.unit = Captured(text, "unit")
        /\ \/ result.parameters.symbol = Strip(Captured(text, "symbol"))
           \/ /\ Len(result.matches) = 1
              /\ result.parameters.symbol = result.matches[1].symbol
        /\ result.parameters.from_date =
             DaysBefore(last.today, duration * UnitDays(Captured(text, "unit")))

\* trading symbol and name of a directory record, under either class's keys
DirectorySymbol(instrument) ==
  Get(instrument, "tradingsymbol", Get(instrument, "trading_symbol", ""))

DirectoryName(instrument) ==
  Get(instrument, "company_name", Get(instrument, "name", ""))

\* the records of the mapper's directory whose trading symbol or name
\* contains the text, case-insensitively
MatchingRecords(mapper, text) ==
  {k \in 1..Len(mapper.instruments) :
     \/ StrContains(StrUpper(text), StrUpper(DirectorySymbol(mapper.instruments[k])))
     \/ StrContains(StrUpper(text), StrUpper(DirectoryName(mapper.instruments[k])))}

\* C14: "Show 200 day moving average for Infosys", against a loaded directory
\* in which exactly one instrument matches (trading symbol INFY, name
\* containing Infosys), yields moving_averages with symbol "INFY", period 200
\* and from_date = now - 200 days.
C14_InfosysResolved ==
  (/\ IsProcessPrompt
   /\ last.prompt = "Show 200 day moving average for Infosys"
   /\ Cardinality(MatchingRecords(last.mapper, "Infosys")) = 1
   /\ \A k \in MatchingRecords(last.mapper, "Infosys") :
        DirectorySymbol(last.mapper.instruments[k]) = "INFY") =>
    LET result == last.call.result
    IN  /\ Get(result, "query_type", None) = "moving_averages"
        /\ result.parameters.symbol = "INFY"
        /\ result.parameters.period = 200
        /\ result.parameters.from_date = DaysBefore(last.today, 200)

\* C15: "Compare performance of HDFC with ICICI" yields comparison with
\* symbol1 "HDFC", symbol2 "ICICI", duration 30, unit "day", and one candidate
\* list per symbol, each the result of searching the directory for that
\* symbol alone.
C15_ComparisonIndependentLists ==
  (IsProcessPrompt /\ last.prompt = "Compare performance of HDFC with ICICI") =>
    LET result == last.call.result
    IN  /\ Get(result, "query_type", None) = "comparison"
        /\ result.parameters.symbol1 = "HDFC"
        /\ result.parameters.symbol2 = "ICICI"
        /\ result.parameters.duration = 30
        /\ result.parameters.unit = "day"
        /\ DOMAIN result.matches = {"symbol1", "symbol2"}
        /\ result.matches.symbol1 = find_matching_instruments(last.mapper, "HDFC")
        /\ result.matches.symbol2 = find_matching_instruments(last.mapper, "ICICI")
        /\ \A k \in 1..Len(result.matches.symbol1) :
             \/ StrContains("HDFC", result.matches.symbol1[k].symbol)
             \/ StrContains("HDFC", StrUpper(result.matches.symbol1[k].name))
        /\ \A k \in 1..Len(result.matches.symbol2) :
             \/ StrContains("ICICI", result.matches.symbol2[k].symbol)
             \/ StrContains("ICICI", StrUpper(result.matches.symbol2[k].name))

\* C15 witness: the two lists differ, two candidates for HDFC and one for ICICI
C15_Witness_TwoLists ==
  /\ IsProcessPrompt
  /\ last.prompt = "Compare performance of HDFC with ICICI"
  /\ Len(last.call.result.matches.symbol1) = 2
  /\ Len(last.call.result.matches.symbol2) = 1
  /\ last.call.result.matches.symbol2[1].symbol = "ICICIBANK"

\* get_example_prompts, each with the intent its wording names
ExampleIntents ==
  << <<"Show me 5 year data of TCS", "historical">>,
     <<"Get top 10 performing stocks in last 30 days", "top_performers">>,
     <<"Show trend analysis of Reliance", "trend_analysis">>,
     <<"Compare performance of HDFC with ICICI", "comparison">>,
     <<"Show 200 day moving average for Infosys", "moving_averages">>,
     <<"Calculate RSI analysis for Wipro", "rsi_analysis">>,
     <<"Show support and resistance levels for TATA MOTORS", "support_resistance">>,
     <<"What is the market sentiment for IT sector", "market_sentiment">>,
     <<"Show volume analysis of SBI", "volume_analysis">>,
     <<"Get dividend history of ITC", "dividend_history">> >>

\* C16: every example prompt of get_example_prompts gets a non-null intent
\* from process_prompt, and it is the intent the prompt's wording names.
C16_ExamplesHandled ==
  IsProcessPrompt =>
    \A k \in 1..Len(ExampleIntents) :
       last.prompt = ExampleIntents[k][1] =>
         /\ Get(last.call.result, "query_type", None) # None
         /\ Get(last.call.result, "query_type", None) = ExampleIntents[k][2]

\* ---- the two caches ----

\* seconds since an entry was stored
Age(entry) == SecondsBetween(now, entry.timestamp)

\* a call of the fetch just returned: the step set last and left the clock alone
JustCalled(op) == last'.op = op /\ now' = now /\ last'.today = now

StockKey == CacheKey(last'.symbol, FullPeriod.from_date)
HistKey == <<last'.symbol, FullPeriod.from_date.d, now.d, "1day">>

\* the entries a successful fetch left, before the call
CachedSuccess(entries, key) == key \in DOMAIN entries /\ entries[key].data.success

\* the answer came from the cache: nothing was requested, nothing was stored
ServedFromCache(entries, after, key) ==
  /\ last'.ret = entries[key].data
  /\ Events(last'.trace, "GET") = {}
  /\ after = entries

\* the answer came from the network: a request was sent, and a success is the
\* payload stored by this very call
FetchedAgain(after, key) ==
  /\ Events(last'.trace, "GET") # {}
  /\ last'.ret.success =>
       /\ key \in DOMAIN after
       /\ after[key] = [data |-> last'.ret, timestamp |-> now]

\* C17: once a successful fetch is cached, a request with the same key made
\* while the entry is younger than 300 seconds returns the identical payload
\* and sends no request; a request made when 300 seconds or more have passed
\* sends a fresh request and does not answer from the stale entry.  For both
\* get_stock_data and get_historical_data.
C17_CacheRoundTrip ==
  [][ /\ (JustCalled("get_stock_data") /\ CachedSuccess(cache, StockKey)) =>
           IF Age(cache[StockKey]) < 300
           THEN ServedFromCache(cache, cache', StockKey)
           ELSE /\ FetchedAgain(cache', StockKey)
                /\ last'.ret.success => last'.ret.data.timestamp = now
      /\ (/\ JustCalled("get_historical_data")
          /\ HasAttr(last'.mapper, "get_instrument_by_symbol")
          /\ CachedSuccess(hist_cache, HistKey)) =>
           IF Age(hist_cache[HistKey]) < 300
           THEN ServedFromCache(hist_cache, hist_cache', HistKey)
           ELSE FetchedAgain(hist_cache', HistKey)
    ]_vars

\* C17 witness: get_stock_data answered, without a request, with a payload
\* fetched 150 seconds earlier
C17_Witness_ServedFromCache ==
  /\ last.op = "get_stock_data"
  /\ Events(last.trace, "GET") = {}
  /\ last.ret.success
  /\ SecondsBetween(last.today, last.ret.data.timestamp) = TickSeconds
  /\ last.ret = cache[CacheKey(last.symbol, FullPeriod.from_date)].data

\* C17 witness: with an entry of 300 seconds in the cache, get_stock_data sent
\* its requests and returned their failure, not the entry
C17_Witness_StaleNotServed ==
  /\ last.op = "get_stock_data"
  /\ last.today = now
  /\ CacheKey(last.symbol, FullPeriod.from_date) \in DOMAIN cache
  /\ Age(cache[CacheKey(last.symbol, FullPeriod.from_date)]) >= 300
  /\ Events(last.trace, "GET") # {}
  /\ ~ last.ret.success

\* C17 witness: get_historical_data answered from its cache
C17_Witness_HistoryServedFromCache ==
  /\ last.op = "get_historical_data"
  /\ last.trace = <<>>
  /\ last.ret.success
  /\ <<last.symbol, FullPeriod.from_date.d, last.today.d, "1day">> \in DOMAIN hist_cache
  /\ SecondsBetween(last.today,
       hist_cache[<<last.symbol, FullPeriod.from_date.d, last.today.d, "1day">>].timestamp) > 0

\* ---- the instrument directory ----

\* a decoded master file that is a list of records
ListOfRecords(data) ==
  data.type = "list" /\ \A k \in 1..Len(data.items) : data.items[k].type = "dict"

\* the response is no master file: no answer, a status other than 200, bad
\* gzip, bad JSON, or an entry that is no record
LoadFails(response) ==
  \/ ~ response.answered
  \/ response.status_code # 200
  \/ response.content # "json"
  \/ ~ ListOfRecords(response.data)

\* the in-memory set is the response's records, one instrument per record in
\* the file's order
HoldsRecordsOf(instruments, data) ==
  /\ Len(instruments) = Len(data.items)
  /\ \A k \in 1..Len(instruments) :
       /\ instruments[k].trading_symbol = Get(data.items[k].fields, "symbol", None)
       /\ instruments[k].exchange = Get(data.items[k].fields, "exchange", None)
       /\ instruments[k].name = Get(data.items[k].fields, "name", None)
       /\ instruments[k].isin = Get(data.items[k].fields, "isin", None)
       /\ instruments[k].token = Get(data.items[k].fields, "token", None)

\* C18: refresh_master_data fails closed.  On a fetch, decompress or parse
\* error (no answer, non-200 status, bad gzip, bad JSON, malformed record) it
\* returns false and leaves the in-memory set and its last-update time as they
\* were; on success it returns true and replaces both, the set by the newly
\* loaded records and the time by now.
C18_RefreshFailsClosed ==
  [][ (last'.op = "refresh_master_data" /\ now' = now /\ last'.today = now) =>
        IF LoadFails(last'.response)
        THEN /\ last'.ret = FALSE
             /\ _instruments_cache' = _instruments_cache
             /\ _last_cache_update' = _last_cache_update
        ELSE /\ last'.ret = TRUE
             /\ HoldsRecordsOf(_instruments_cache', last'.response.data)
             /\ _last_cache_update' = <<now>>
    ]_vars

\* C18 witness: a refresh that met a malformed record returned false, and the
\* set loaded earlier is still in memory with its time
C18_Witness_KeptOnMalformedRecord ==
  /\ last.op = "refresh_master_data"
  /\ last.response = Ok(MalformedPayload)
  /\ last.ret = FALSE
  /\ HoldsRecordsOf(_instruments_cache, MasterPayload)
  /\ _last_cache_update # <<>>
  /\ SecondsBetween(now, _last_cache_update[1]) > 0

\* C18 witness: a successful refresh replaced a set loaded earlier
C18_Witness_Replaced ==
  /\ last.op = "refresh_master_data"
  /\ last.response = Ok(SmallPayload)
  /\ last.ret = TRUE
  /\ HoldsRecordsOf(_instruments_cache, SmallPayload)
  /\ _last_cache_update = <<now>>
  /\ now.s > StartSecond

\* the lookups of the utils mapper and of the market mapper
UtilsLookups ==
  {"smart_search", "get_instrument_by_token", "get_instrument_by_isin",
   "find_matching_instruments"}
MarketLookups == {"search_by_trading_symbol", "get_instrument_details"}

\* the master file could not be fetched or decoded
FetchFails(response) ==
  ~ response.answered \/ response.status_code # 200 \/ response.content # "json"

\* the cache file holds a directory saved less than a day ago
ValidFile(file) ==
  /\ file # <<>>
  /\ {"last_update", "instruments"} \subseteq DOMAIN file[1]
  /\ SecondsBetween(now, file[1].last_update) <= 86400

\* an empty list, or None
NothingFound(ret) == ~ ret.raised /\ ret.value \in {<<>>, None}

\* C19: a failed directory load returns instead of raising -- false from the
\* utils mapper (unless its cache file supplied the directory), an empty
\* frame in the market mapper -- and every lookup against an empty or
\* never-loaded directory (smart_search, get_instrument_by_token,
\* get_instrument_by_isin, find_matching_instruments,
\* search_by_trading_symbol, get_instrument_details) returns an empty list or
\* None and raises nothing.
C19_EmptyDirectoryLookups ==
  /\ (last.op = "refresh_master_data" /\ LoadFails(last.response)) => last.ret = FALSE
  /\ (last.op = "initialize" /\ last.today = now /\ LoadFails(last.response)) =>
        IF ValidFile(cache_file)
        THEN last.ret = TRUE /\ _instruments_cache = cache_file[1].instruments
        ELSE last.ret = FALSE
  /\ (last.op = "market.InstrumentMapper" /\ FetchFails(last.response)) => FrameEmpty(df)
  /\ (last.op \in UtilsLookups /\ _instruments_cache = <<>>) => NothingFound(last.ret)
  /\ (last.op \in MarketLookups /\ FrameEmpty(df)) => NothingFound(last.ret)

\* C19 witness: get_instrument_details was asked for a key while the frame
\* was empty and returned None
C19_Witness_DetailsOnEmptyFrame ==
  /\ last.op = "get_instrument_details"
  /\ last.instrument_key = "NSE_EQ|INE009A01021"
  /\ FrameEmpty(df)
  /\ last.ret = Return(<<>>)

\* C19 witness: the load failed, nothing is in memory, initialize returned false
C19_Witness_FailedLoad ==
  /\ last.op = "initialize"
  /\ ~ last.response.answered
  /\ last.ret = FALSE
  /\ _instruments_cache = <<>>

\* C19 witness: smart_search on the never-loaded mapper
C19_Witness_SearchOnEmpty ==
  /\ last.op = "smart_search"
  /\ last.query = "INFY"
  /\ _instruments_cache = <<>>
  /\ last.ret = Return(<<>>)

\* equal after trimming surrounding whitespace and ignoring case
SameTrimmed(stored, given) ==
  stored # None /\ StrUpper(Strip(stored)) = StrUpper(Strip(given))

\* the rows the claim's rule selects
ExactMatches(frame, segment, trading_symbol) ==
  {k \in 1..Len(frame.rows) :
     /\ SameTrimmed(frame.rows[k].segment, segment)
     /\ SameTrimmed(frame.rows[k].trading_symbol, trading_symbol)}

\* the value search_by_trading_symbol returns for a row
KeyOf(row) == Format_(row.segment) \o "|" \o Format_(row.isin)

\* C20: search_by_trading_symbol(segment, trading_symbol) finds an instrument
\* exactly when, trimmed and compared without case on both the segment and
\* the trading symbol, a stored record equals the arguments; it returns the
\* first such record in directory order, and None when there is none.
C20_ExactMatchBothTrimmed ==
  (/\ last.op = "search_by_trading_symbol"
   /\ {"segment", "trading_symbol", "isin"} \subseteq df.columns) =>
    LET hits == ExactMatches(df, last.segment, last.trading_symbol)
    IN  /\ ~ last.ret.raised
        /\ IF hits = {} THEN last.ret.value = None
           ELSE last.ret.value = KeyOf(df.rows[CHOOSE k \in hits : \A j \in hits : k <= j])

\* ---- C21 ----
\* the place of a record in the directory (the records of a master file differ)
PlaceOf(instrument) ==
  CHOOSE k \in 1..Len(_instruments_cache) : _instruments_cache[k] = instrument

SearchReturned == last.op = "smart_search" /\ ~ last.ret.raised

\* the query as smart_search normalises it, and the doubled score of a record
SearchQuery == Strip(StrUpper(last.query))
SearchScore(instrument) == TwiceScore(SearchQuery, Split(SearchQuery), instrument)

InResult(instrument) ==
  \E k \in 1..Len(last.ret.value) : last.ret.value[k].instrument = instrument

\* C21: what smart_search(query, limit) returns is ordered by score, highest
\* first; entries of equal score keep the order of the directory; there are at
\* most `limit` entries; and no record left out scores strictly higher than a
\* record returned.
C21_SearchSortedAndTruncated ==
  SearchReturned =>
    LET found == last.ret.value
    IN  /\ Len(found) <= last.limit
        /\ \A k \in 1..Len(found) :
             /\ \E j \in 1..Len(_instruments_cache) : _instruments_cache[j] = found[k].instrument
             /\ found[k].score = SearchScore(found[k].instrument)
        /\ \A j, k \in 1..Len(found) :
             j < k =>
               /\ found[j].score >= found[k].score
               /\ found[j].score = found[k].score
                    => PlaceOf(found[j].instrument) < PlaceOf(found[k].instrument)
        /\ \A i \in 1..Len(_instruments_cache), k \in 1..Len(found) :
             ~ InResult(_instruments_cache[i])
               => SearchScore(_instruments_cache[i]) <= found[k].score

\* a search whose best record is the last of the directory, with two records
\* of equal score behind it, one of them cut off by the limit
C21_Witness_ReorderedAndCut ==
  /\ SearchReturned
  /\ last.limit = 2
  /\ Len(_instruments_cache) = 3
  /\ Len(last.ret.value) = 2
  /\ last.ret.value[1].instrument = _instruments_cache[3]
  /\ last.ret.value[2].instrument = _instruments_cache[1]
  /\ SearchScore(_instruments_cache[1]) = SearchScore(_instruments_cache[2])
  /\ ~ InResult(_instruments_cache[2])

\* ---- C22 ----
\* C22: smart_search discards exactly the records scoring below 50: no record
\* returned scores below 50, and when the limit cuts nothing off, every record
\* of the directory scoring 50 or more is returned (scores are kept doubled).
C22_ThresholdKeepsFifty ==
  SearchReturned =>
    /\ \A k \in 1..Len(last.ret.value) : last.ret.value[k].score >= 2 * 50
    /\ Len(last.ret.value) < last.limit
         => \A i \in 1..Len(_instruments_cache) :
              SearchScore(_instruments_cache[i]) >= 2 * 50
                => InResult(_instruments_cache[i])

\* ---- C23 ----
\* the calls that fetch several symbols
FannedOut ==
  \/ last.op = "handler" /\ last.method \in {"_analyze_comparison", "_analyze_sector"}
  \/ last.op = "get_multiple_stocks_data"

\* the results of the sub-fetches of the last call, in the order they returned
SubFetchResults ==
  LET ended == SelectSeq(last.trace, LAMBDA e : e.ev = "returned")
  IN  [k \in 1..Len(ended) |-> ended[k].arg]

SubFetchFailed == \E k \in 1..Len(SubFetchResults) : ~ SubFetchResults[k].success

\* the aggregate holds the result of every sub-fetch, the failed ones too
CarriesEveryResult ==
  /\ last.op = "get_multiple_stocks_data"
  /\ Len(SubFetchResults) = Len(last.symbols)
  /\ DOMAIN last.ret.data = {last.symbols[k] : k \in 1..Len(last.symbols)}
  /\ \A k \in 1..Len(last.symbols) :
       (\A j \in 1..Len(last.symbols) : last.symbols[j] = last.symbols[k] => j <= k)
         => last.ret.data[last.symbols[k]] = SubFetchResults[k]

C23_Witness_GatheredWithFailure ==
  /\ last.op = "get_multiple_stocks_data"
  /\ last.symbols = <<"INFY", "TCS">>
  /\ SubFetchFailed
  /\ last.ret.success
  /\ ~ last.ret.data["INFY"].success
  /\ last.ret.data["TCS"].success

\* ---- C24 ----
\* the values of a field that are the greatest (least) of the window centred
\* on them, where the window lies within the series
WindowAround(k, window) == (k + (window - 1) \div 2 - window + 1)..(k + (window - 1) \div 2)

LocalMaxima(bars, window) ==
  {bars[k].high : k \in {i \in 1..Len(bars) :
      /\ WindowAround(i, window) \subseteq 1..Len(bars)
      /\ \A j \in WindowAround(i, window) : bars[j].high <= bars[i].high}}

LocalMinima(bars, window) ==
  {bars[k].low : k \in {i \in 1..Len(bars) :
      /\ WindowAround(i, window) \subseteq 1..Len(bars)
      /\ \A j \in WindowAround(i, window) : bars[j].low >= bars[i].low}}

\* levels is the ascending list of the (at most five) greatest, or least,
\* values of a set
AscendingListOf(levels, values) ==
  /\ \A k \in 1..(Len(levels) - 1) : levels[k] < levels[k + 1]
  /\ {levels[k] : k \in 1..Len(levels)} = values

Greatest(values) == {v \in values : Cardinality({w \in values : w > v}) < 5}
Least(values) == {v \in values : Cardinality({w \in values : w < v}) < 5}

\* C24: find_support_resistance(series, window) returns as resistance the 5
\* greatest distinct highs that equal the centred rolling maximum, ascending,
\* and as support the 5 least distinct lows that equal the centred rolling
\* minimum; both lists are non-empty when the series has such a maximum and
\* such a minimum.
C24_SupportResistanceLevels ==
  last.op = "find_support_resistance" /\ last.series.format = "records" =>
    /\ AscendingListOf(last.ret.resistance, Greatest(LocalMaxima(last.series.bars, last.window)))
    /\ AscendingListOf(last.ret.support, Least(LocalMinima(last.series.bars, last.window)))

\* ---- C25 ----
\* every fetch of the call succeeded and brought a non-empty series of bars
FetchedBars(trace) ==
  \A r \in Returned(trace) :
     /\ r.success
     /\ r.data.historical.format = "records"
     /\ Len(r.data.historical.bars) >= 1

\* C25: a handler called with every parameter it reads, whose fetches
\* succeeded with a non-empty series of bars, however short, returns
\* success = true.  (The market-sentiment handler is left aside: it fails on
\* every series, whatever its length.)
C25_ShortSeriesSucceeds ==
  (/\ IsHandler
   /\ last.method # "_analyze_market_sentiment"
   /\ last.params \in {Complete, Pair, Sector}
   /\ FetchedBars(last.trace)) => last.ret.success

\* ---- C26 ----
\* authenticate() returned in this step, in the way named
ReturnedBy(by) ==
  /\ authenticated = <<>>
  /\ authenticated' # <<>>
  /\ authenticated'[1].by = by

\* what the token URL's answer makes of an exchange
ExchangeSucceeds(response) ==
  /\ response.kind = "json"
  /\ response.status_code = 200
  /\ "access_token" \in DOMAIN response.data
  /\ Truthy(response.data.access_token)

WaitStep ==
  /\ polls' \in 0..120
  /\ polls' \in {polls, polls + 1}
  /\ polls' # polls => pc = "sleep"
  /\ (polls' # polls /\ Truthy(auth_code))
       => pc' = "seen" /\ authenticated' = <<>>
  /\ (polls' # polls /\ ~ Truthy(auth_code) /\ polls' < 120)
       => pc' = "sleep" /\ authenticated' = <<>>
  /\ (polls' # polls /\ ~ Truthy(auth_code) /\ polls' = 120)
       => ReturnedBy("timeout")
  /\ ReturnedBy("timeout")
       => polls' = 120 /\ exchanges' = <<>> /\ ~ authenticated'[1].ret
  /\ Len(exchanges') <= 1
  /\ exchanges' # exchanges
       => /\ pc = "exchange"
          /\ polls' = polls
          /\ ReturnedBy("exchange")
  /\ ReturnedBy("exchange")
       => /\ Len(exchanges') = 1 /\ exchanges = <<>>
          /\ authenticated'[1].ret = ExchangeSucceeds(exchanges'[1].response)
  /\ authenticated # <<>> => UNCHANGED <<authenticated, polls, exchanges, pc>>

\* C26: authenticate polls for the code at most 120 times.  A poll that
\* sees a code ends the polling, and exactly one token exchange follows whose
\* outcome is returned; the 120th poll without a code returns false with no
\* exchange; once authenticate has returned nothing more is polled or posted.
C26_WaitBounded == [][WaitStep]_vars

\* the 120th poll saw no code: timeout
C26_Witness_Timeout ==
  /\ authenticated = <<[ret |-> FALSE, by |-> "timeout"]>>
  /\ polls = 120
  /\ exchanges = <<>>

\* the 120th poll saw a code, and the exchange it led to succeeded
C26_Witness_SeenAtLastPoll ==
  /\ authenticated = <<[ret |-> TRUE, by |-> "exchange"]>>
  /\ polls = 120
  /\ Len(exchanges) = 1
  /\ access_token = "tok"

\* ---- C27 ----
\* C27: the code handed to fetch_access_token is a non-empty code that a
\* callback delivered, and once a callback has delivered a code, the server
\* holds a code for as long as authenticate is still waiting to use it.
C27_CodeNeverLost ==
  /\ handed # <<>> => Truthy(handed[1]) /\ handed[1] \in delivered
  /\ \A k \in 1..Len(exchanges) :
       Truthy(exchanges[k].code) /\ exchanges[k].code \in delivered
  /\ (pc \in {"sleep", "seen"} /\ delivered # {}) => Truthy(auth_code)

\* ---- C28 ----
\* C28: once start() has built the processors over a loaded directory, a
\* message whose symbol text is contained in the trading symbol or the name
\* of a record of that directory gets that record among its candidates, and
\* is not answered with "No matching instruments found".
C28_SearchConsultsDirectory ==
  (/\ Understood
   /\ last.constructed
   /\ HasSymbol(last.prompt_result[1])
   /\ MatchingRecords(prompt_processor[1], last.prompt_result[1].parameters.symbol) # {}) =>
    /\ Len(last.prompt_result[1].matches) >= 1
    /\ LastSent.kind # "not_found"

\* ---- C29 ----
\* the error of a dispatch whose mapping could not be built
MappingErrors ==
  {AttributeError("AnalysisProcessor", analysis_methods[k][2]).exc :
     k \in 1..Len(analysis_methods)}

\* C29: every intent of the pattern table has an entry in the dispatcher's
\* mapping and every entry names a method AnalysisProcessor defines, so the
\* dispatch of a request process_prompt produced for an understood text is
\* neither answered "Unsupported analysis type" nor fails while the mapping
\* is built.
C29_EveryIntentDispatched ==
  (IsDispatch /\ Truthy(Get(last.request, "query_type", None))) =>
    /\ \A k \in 1..Len(patterns) : patterns[k].name \in MappedIntents
    /\ \A k \in 1..Len(analysis_methods) : analysis_methods[k][2] \in AnalysisProcessorMethods
    /\ last.ret.success
         \/ /\ last.ret.error # "Unsupported analysis type: " \o last.request.query_type
            /\ last.ret.error \notin MappingErrors

\* ---- C30 ----
\* C30: every entry of StockProcessor._cache and of
\* HistoricalDataFetcher._cache holds a result with success = true.
C30_OnlySuccessCached ==
  /\ \A key \in DOMAIN cache : cache[key].data.success
  /\ \A key \in DOMAIN hist_cache : hist_cache[key].data.success

====
